---- MODULE Spec2Model ----
(***************************************************************************)
(* Discovery Desktop: the document processing pipeline, the record store   *)
(* it writes, the usage gate it consults, and the cascading deletes.       *)
(*                                                                         *)
(* Every awaited store call of an async function is one atomic step; a     *)
(* remote request is two steps, the sending (with the gate check that runs *)
(* synchronously before it) and the answer.  Record ids                    *)
(* (crypto.randomUUID) are modelled by tuples that are unique by           *)
(* construction.                                                           *)
(***************************************************************************)
EXTENDS Integers, Sequences, FiniteSets, TLC

\* ---------------------------------------------------------------------
\* Program constants
\* ---------------------------------------------------------------------
EMBEDDING_BATCH_SIZE == 50

PARALLEL_EMBEDDING_REQUESTS == 3

\* ---------------------------------------------------------------------
\* Bounds of the model
\* ---------------------------------------------------------------------
MaxChunks == 151

MaxSearches == 1

MaxAnalyses == 2

\* The documents of the pipeline specification.
DocIds == {1}

\* The cases of the model.
CaseIds == {1, 2}

DOCX_MIME == "application/vnd.openxmlformats-officedocument.wordprocessingml.document"

\* The uploaded files: declared MIME type, file-name extension and the text
\* in the file.  A text is represented by the number of chunks chunkText
\* yields for it: none, one batch, two batches, more than one group.
Files ==
  { [type |-> "text/plain", ext |-> "txt", text |-> 0],
    [type |-> "text/plain", ext |-> "txt", text |-> 1],
    [type |-> DOCX_MIME, ext |-> "docx", text |-> EMBEDDING_BATCH_SIZE + 1],
    [type |-> "application/pdf", ext |-> "pdf", text |-> MaxChunks] }

VARIABLES
  cases,              \* db.cases: set of case ids
  documents,          \* db.documents: id -> record
  chunks,             \* db.chunks: set of records
  embeddings,         \* db.embeddings: set of records
  processingJobs,     \* db.processingJobs: id -> record
  searchHistory,      \* db.searchHistory: set of records
  caseThemes,         \* db.caseThemes: set of records
  suggestedQuestions, \* db.suggestedQuestions: set of records
  themeAnalysis,      \* db.themeAnalysis: set of records
  allowed,            \* what checkUsageLimits().allowed answers now
  requests,           \* metered remote requests sent so far
  run,                \* processDocument invocation of each document
  search,             \* the search() call of a useSearch hook
  analysis,           \* the triggerAnalysis() call of a useThemes hook
  poll,               \* the poll loop of an extractTextViaOCR call
  chunker,            \* a chunkText call
  dispatch,           \* a getFileTypeCategory call
  call,               \* a call of a synchronous helper: argument and result
  upload,             \* the uploadFiles() call of a useDocuments hook
  otherAnalysis,      \* the triggerAnalysis() call of a second useThemes hook
  otherSearch         \* a second search() call of the useSearch hook

vars ==
  << cases, documents, chunks, embeddings, processingJobs, searchHistory,
     caseThemes, suggestedQuestions, themeAnalysis, allowed, requests, run,
     search, analysis, poll, chunker, dispatch, call, upload,
     otherAnalysis, otherSearch >>

\* the calls that are followed on their own
units == << poll, chunker, dispatch, call, upload, otherAnalysis, otherSearch >>

\* what the pipeline never touches
caseTables ==
  << searchHistory, caseThemes, suggestedQuestions, themeAnalysis, search,
     analysis, units >>

\* what search and theme analysis never touch
pipelineState ==
  << cases, documents, chunks, embeddings, processingJobs, allowed, run,
     units >>

\* what a synchronous helper never touches
appState ==
  << cases, documents, chunks, embeddings, processingJobs, searchHistory,
     caseThemes, suggestedQuestions, themeAnalysis, allowed, requests, run,
     search, analysis, poll, chunker, dispatch, upload, otherAnalysis, otherSearch >>

\* what the loop of uploadFiles itself never touches
besidesUpload ==
  << cases, documents, chunks, embeddings, processingJobs, searchHistory,
     caseThemes, suggestedQuestions, themeAnalysis, allowed, requests, run,
     search, analysis, poll, chunker, dispatch, call, otherAnalysis, otherSearch >>

\* what the second useThemes hook never touches, the table of the
\* analysis records aside
besidesOtherAnalysis ==
  << cases, documents, chunks, embeddings, processingJobs, searchHistory,
     caseThemes, suggestedQuestions, allowed, requests, run, search,
     analysis, poll, chunker, dispatch, call, upload, otherSearch >>

\* what a second search() call never touches, the hook's state, the
\* requests and the history aside
besidesOtherSearch ==
  << cases, documents, chunks, embeddings, processingJobs, caseThemes,
     suggestedQuestions, themeAnalysis, allowed, run, analysis, poll,
     chunker, dispatch, call, upload, otherAnalysis >>

\* ---------------------------------------------------------------------
\* Errors
\* ---------------------------------------------------------------------
NoError == [name |-> "none", message |-> ""]

DemoLimitExceededError(reason) ==
  [name |-> "DemoLimitExceededError", message |-> <<"Demo limit exceeded: ", reason>>]

Err(message) == [name |-> "Error", message |-> message]

\* ---------------------------------------------------------------------
\* Store helpers (Dexie tables)
\* ---------------------------------------------------------------------
\* Table.update(id, updates): a no-op when the key is absent.
TableUpdate(table, id, updates) ==
  IF id \in DOMAIN table
    THEN [table EXCEPT ![id] = updates @@ table[id]]
    ELSE table

\* Table.add
TableAdd(table, id, rec) == (id :> rec) @@ table

\* Table.delete / where(...).delete()
TableRemove(table, ids) == [k \in (DOMAIN table) \ ids |-> table[k]]

updateDocument(id, updates) == TableUpdate(documents, id, updates)

updateProcessingJob(id, updates) == TableUpdate(processingJobs, id, updates)

createProcessingJob(d, caseId, type) ==
  TableAdd(processingJobs, <<d, type>>,
           [documentId |-> d, caseId |-> caseId, type |-> type,
            status |-> "processing"])

\* ---------------------------------------------------------------------
\* Pure functions of the pipeline
\* ---------------------------------------------------------------------
OCR_REQUIRED_TYPES ==
  { "application/pdf", "image/png", "image/jpeg", "image/jpg", "image/gif",
    "image/webp", "image/tiff", "image/bmp" }

DOCX_TYPES == { DOCX_MIME }

\* (variant) the extension is looked at before the MIME type
getFileTypeCategoryByExt(file) ==
  IF file.ext = "txt" THEN "text"
  ELSE IF file.ext = "docx" THEN "docx"
  ELSE IF file.type = "text/plain" THEN "text"
  ELSE IF file.type \in DOCX_TYPES THEN "docx"
  ELSE "ocr"

\* file.ext stands for file.name.split(".").pop()?.toLowerCase()
getFileTypeCategory(file) ==
  IF file.type = "text/plain" THEN "text"
  ELSE IF file.type \in DOCX_TYPES THEN "docx"
  ELSE IF file.type \in OCR_REQUIRED_TYPES THEN "ocr"
  ELSE IF file.ext = "txt" THEN "text"
  ELSE IF file.ext = "docx" THEN "docx"
  ELSE "ocr"

\* (variant) the gate's answer is ignored
checkLimitsIgnored(gateAllowed) == TRUE

\* checkLimitsOrThrow: TRUE when it returns, FALSE when it throws.
checkLimitsOrThrow(gateAllowed) == gateAllowed

\* The chunk rows processDocument hands to createChunks for a text, with
\* the ids createChunks gives them.
NewChunks(d, caseId, text) ==
  [k \in 1..text |->
     [id |-> <<d, k - 1>>, documentId |-> d, caseId |-> caseId,
      chunkIndex |-> k - 1, content |-> <<text, k - 1>>]]

Range(s) == { s[k] : k \in DOMAIN s }

Min(a, b) == IF a < b THEN a ELSE b

\* batches: chunks.slice(i, i + EMBEDDING_BATCH_SIZE) for i = 0, 50, ...
NumBatches(chunkSeq) ==
  (Len(chunkSeq) + EMBEDDING_BATCH_SIZE - 1) \div EMBEDDING_BATCH_SIZE

Batch(chunkSeq, b) ==
  SubSeq(chunkSeq, (b - 1) * EMBEDDING_BATCH_SIZE + 1,
         Min(b * EMBEDDING_BATCH_SIZE, Len(chunkSeq)))

\* (variant) the slice is one batch too wide
ParallelBatchesWide(i, totalBatches) ==
  (i + 1)..Min(i + PARALLEL_EMBEDDING_REQUESTS + 1, totalBatches)

\* parallelBatches: batches.slice(i, i + PARALLEL_EMBEDDING_REQUESTS),
\* as the set of (1-based) batch numbers.
ParallelBatches(i, totalBatches) ==
  (i + 1)..Min(i + PARALLEL_EMBEDDING_REQUESTS, totalBatches)

\* The embedding service: one vector per text, in request order.
generateEmbeddings(texts) == [k \in 1..Len(texts) |-> <<"vec", texts[k]>>]

\* What fetchEmbeddingBatch resolves to for a batch.
BatchResult(batch) ==
  [batch |-> batch,
   embeddings |-> generateEmbeddings([k \in 1..Len(batch) |-> batch[k].content]),
   model |-> "voyage-law-2"]

\* (variant) the vector is taken from the mirrored position of the batch
ResultRowsMirrored(result) ==
  [idx \in 1..Len(result.batch) |->
     [chunkId |-> result.batch[idx].id,
      documentId |-> result.batch[idx].documentId,
      caseId |-> result.batch[idx].caseId,
      embedding |-> result.embeddings[Len(result.batch) + 1 - idx],
      model |-> result.model]]

ResultRows(result) ==
  [idx \in 1..Len(result.batch) |->
     [chunkId |-> result.batch[idx].id,
      documentId |-> result.batch[idx].documentId,
      caseId |-> result.batch[idx].caseId,
      embedding |-> result.embeddings[idx],
      model |-> result.model]]

\* allResults.flatMap(result => result.batch.map(...))
RECURSIVE AllEmbeddingsToStore(_)
AllEmbeddingsToStore(allResults) ==
  IF allResults = <<>> THEN <<>>
  ELSE ResultRows(Head(allResults)) \o AllEmbeddingsToStore(Tail(allResults))

\* ---------------------------------------------------------------------
\* Initial state
\* ---------------------------------------------------------------------
IdleRun ==
  [pc |-> "idle", file |-> [type |-> "", ext |-> "", text |-> 0], caseId |-> 0,
   extractedText |-> 0, chunks |-> <<>>, i |-> 0, inflight |-> {},
   sent |-> {}, results |-> <<>>, allResults |-> <<>>, failed |-> {},
   denied |-> FALSE, progress |-> <<>>, usage |-> {}, error |-> NoError]

EmptyTable == [k \in {} |-> 0]

\* useSearch state and the locals of search()
IdleSearch ==
  [pc |-> "idle", caseId |-> 0, query |-> "", matches |-> {},
   results |-> "null", isSearching |-> FALSE, error |-> "", n |-> 0]

\* useThemes state and the locals of triggerAnalysis()
IdleAnalysis ==
  [pc |-> "idle", caseId |-> 0, completedCount |-> 0, recordId |-> 0,
   result |-> [themes |-> <<>>, suggestedQuestions |-> <<>>],
   savedThemes |-> <<>>, isAnalyzing |-> FALSE, error |-> "", n |-> 0]

\* the locals of the poll loop before its first iteration
IdlePoll ==
  [pc |-> "idle", latency |-> 0, elapsed |-> 0, progress |-> 10,
   lastStatus |-> "", lastChunksCompleted |-> -1, stuckCount |-> 0,
   polls |-> 0, first |-> <<>>, constant |-> TRUE, prev |-> <<>>,
   quiet |-> 0, outcome |-> "none"]

\* the locals of chunkText before its loop
IdleChunker ==
  [pc |-> "idle", text |-> [kind |-> "letters", len |-> 0], start |-> 0,
   chunks |-> <<>>, forced |-> <<>>, result |-> <<>>]

\* uploadFiles has not been called: no file list, nothing in
\* activeProcessingRef
IdleUpload ==
  [pc |-> "idle", caseId |-> 0, files |-> <<>>, k |-> 0, active |-> {},
   started |-> <<>>]

\* the locals of a second search() call that has not been made
IdleOtherSearch ==
  [pc |-> "idle", query |-> "", matches |-> {}, outcome |-> "none"]

\* the second hook has not called triggerAnalysis
IdleOtherAnalysis ==
  [pc |-> "idle", caseId |-> 0, completedCount |-> 0, recordId |-> 0]

\* no helper has been called
IdleCall == [fn |-> "", pc |-> "idle"]

IdleDispatch ==
  [pc |-> "idle", file |-> [type |-> "", ext |-> "", text |-> 0],
   category |-> ""]

InitDocs(docIds) ==
  /\ poll = IdlePoll
  /\ chunker = IdleChunker
  /\ dispatch = IdleDispatch
  /\ call = IdleCall
  /\ upload = IdleUpload
  /\ otherAnalysis = IdleOtherAnalysis
  /\ otherSearch = IdleOtherSearch
  /\ cases = CaseIds
  /\ documents = EmptyTable
  /\ chunks = {}
  /\ embeddings = {}
  /\ processingJobs = EmptyTable
  /\ searchHistory = {}
  /\ caseThemes = {}
  /\ suggestedQuestions = {}
  /\ themeAnalysis = {}
  /\ allowed = TRUE
  /\ requests = {}
  /\ run = [d \in docIds |-> IdleRun]
  /\ search = IdleSearch
  /\ analysis = IdleAnalysis

Init == InitDocs(DocIds)

\* ---------------------------------------------------------------------
\* uploadFiles: one document record and one processDocument run per file,
\* one file after the other
\* ---------------------------------------------------------------------
RunEnded(d) == run[d].pc \in {"done", "raised"}

Pc(d, label) == run[d].pc = label

Goto(d, label) == run' = [run EXCEPT ![d].pc = label]

\* An awaited call inside the try block rejects: control moves to catch.
Throw(d, e) == run' = [run EXCEPT ![d].pc = "catch", ![d].error = e]

UploadFile(d, c, file) ==
  /\ Pc(d, "idle")
  /\ \A e \in DOMAIN run : e < d => RunEnded(e)
  /\ c \in cases
  /\ documents' = TableAdd(documents, d,
                           [caseId |-> c, status |-> "pending",
                            errorMessage |-> "", extractedText |-> 0])
  /\ run' = [run EXCEPT ![d].pc = "getDocument", ![d].file = file]
  /\ UNCHANGED << cases, chunks, embeddings, processingJobs, caseTables,
                  allowed, requests >>

\* ---------------------------------------------------------------------
\* processDocument
\* ---------------------------------------------------------------------
GetDocument(d) ==
  /\ Pc(d, "getDocument")
  /\ IF d \in DOMAIN documents
       THEN run' = [run EXCEPT ![d].pc = "setOcr",
                               ![d].caseId = documents[d].caseId]
       ELSE run' = [run EXCEPT ![d].pc = "raised",
                               ![d].error = Err("Document not found")]
  /\ UNCHANGED << cases, documents, chunks, embeddings, processingJobs,
                  caseTables, allowed, requests >>

\* await updateDocument(documentId, { status })
SetStatus(d, from, status, to) ==
  /\ Pc(d, from)
  /\ documents' = updateDocument(d, [status |-> status])
  /\ Goto(d, to)
  /\ UNCHANGED << cases, chunks, embeddings, processingJobs, caseTables,
                  allowed, requests >>

\* await createProcessingJob({ documentId, caseId, type, status: "processing" })
CreateJob(d, from, type, to) ==
  /\ Pc(d, from)
  /\ processingJobs' = createProcessingJob(d, run[d].caseId, type)
  /\ Goto(d, to)
  /\ UNCHANGED << cases, documents, chunks, embeddings, caseTables,
                  allowed, requests >>

\* (variant) the job is left as it is
CompleteJobSkipped(d, from, type, to) ==
  /\ Pc(d, from)
  /\ Goto(d, to)
  /\ UNCHANGED << cases, documents, chunks, embeddings, processingJobs,
                  caseTables, allowed, requests >>

\* await updateProcessingJob(job.id, { status: "completed" })
CompleteJob(d, from, type, to) ==
  /\ Pc(d, from)
  /\ processingJobs' = updateProcessingJob(<<d, type>>, [status |-> "completed"])
  /\ Goto(d, to)
  /\ UNCHANGED << cases, documents, chunks, embeddings, caseTables,
                  allowed, requests >>

SetStatusOcr(d) == SetStatus(d, "setOcr", "ocr", "createOcrJob")

CreateOcrJob(d) == CreateJob(d, "createOcrJob", "ocr", "extractText")

\* extractText -> extractTextFromPlainText
ExtractPlainText(d) ==
  /\ Pc(d, "extractText")
  /\ getFileTypeCategory(run[d].file) = "text"
  /\ run' = [run EXCEPT ![d].pc = "saveText",
                          ![d].extractedText = run[d].file.text]
  /\ UNCHANGED << cases, documents, chunks, embeddings, processingJobs,
                  caseTables, allowed, requests >>

\* extractText -> extractTextFromDocx
ExtractDocx(d) ==
  /\ Pc(d, "extractText")
  /\ getFileTypeCategory(run[d].file) = "docx"
  /\ \/ run' = [run EXCEPT ![d].pc = "saveText",
                             ![d].extractedText = run[d].file.text]
     \/ Throw(d, Err("Failed to extract text from DOCX"))
  /\ UNCHANGED << cases, documents, chunks, embeddings, processingJobs,
                  caseTables, allowed, requests >>

\* extractText -> extractTextViaOCR, up to the submission
OcrSubmit(d) ==
  /\ Pc(d, "extractText")
  /\ getFileTypeCategory(run[d].file) = "ocr"
  /\ IF checkLimitsOrThrow(allowed)
       THEN /\ requests' = requests \cup
                  {[kind |-> "ocr", checked |-> TRUE, gate |-> allowed]}
            /\ Goto(d, "ocrSubmitted")
       ELSE /\ requests' = requests
            /\ run' = [run EXCEPT
                 ![d].pc = "catch", ![d].denied = TRUE,
                 ![d].error = DemoLimitExceededError("limit_exceeded")]
  /\ UNCHANGED << cases, documents, chunks, embeddings, processingJobs,
                  caseTables, allowed >>

\* the answer to the submission
OcrSubmitResponse(d) ==
  /\ Pc(d, "ocrSubmitted")
  /\ \/ Goto(d, "ocrPoll")
     \/ Throw(d, Err("OCR submission failed"))
  /\ UNCHANGED << cases, documents, chunks, embeddings, processingJobs,
                  caseTables, allowed, requests >>

\* the outcome of the poll loop
OcrPoll(d) ==
  /\ Pc(d, "ocrPoll")
  /\ \/ run' = [run EXCEPT ![d].pc = "saveText",
                             ![d].extractedText = run[d].file.text]
     \/ \E m \in {"Failed to check OCR status", "OCR processing failed",
                  "OCR job appears stuck", "OCR timed out"} :
          Throw(d, Err(m))
  /\ UNCHANGED << cases, documents, chunks, embeddings, processingJobs,
                  caseTables, allowed, requests >>

\* await updateDocument(documentId, { extractedText })
SaveText(d) ==
  /\ Pc(d, "saveText")
  /\ documents' = updateDocument(d, [extractedText |-> run[d].extractedText])
  /\ Goto(d, "completeOcrJob")
  /\ UNCHANGED << cases, chunks, embeddings, processingJobs, caseTables,
                  allowed, requests >>

CompleteOcrJob(d) == CompleteJob(d, "completeOcrJob", "ocr", "setChunking")

SetStatusChunking(d) == SetStatus(d, "setChunking", "chunking", "createChunkJob")

CreateChunkJob(d) == CreateJob(d, "createChunkJob", "chunking", "createChunks")

\* chunkText, then await createChunks(...): one bulkAdd
CreateChunks(d) ==
  /\ Pc(d, "createChunks")
  /\ LET newChunks == NewChunks(d, run[d].caseId, run[d].extractedText)
     IN  \/ /\ chunks' = chunks \cup Range(newChunks)
            /\ run' = [run EXCEPT ![d].pc = "completeChunkJob",
                                  ![d].chunks = newChunks]
         \/ /\ chunks' = chunks
            /\ Throw(d, Err("bulkAdd failed"))
  /\ UNCHANGED << cases, documents, embeddings, processingJobs, caseTables,
                  allowed, requests >>

CompleteChunkJob(d) == CompleteJob(d, "completeChunkJob", "chunking", "setEmbedding")

SetStatusEmbedding(d) == SetStatus(d, "setEmbedding", "embedding", "createEmbeddingJob")

CreateEmbeddingJob(d) == CreateJob(d, "createEmbeddingJob", "embedding", "embed")

\* ---------------------------------------------------------------------
\* generateAndStoreEmbeddings
\* ---------------------------------------------------------------------
EmbeddingRequest == [kind |-> "embedding", checked |-> TRUE, gate |-> allowed]

\* One pass of the group loop up to its await: every fetchEmbeddingBatch of
\* the group checks the gate and sends its request, or throws.
IssueGroup(d, r) ==
  LET group == ParallelBatches(r.i, NumBatches(r.chunks))
  IN  IF checkLimitsOrThrow(allowed)
        THEN /\ requests' = requests \cup {EmbeddingRequest}
             /\ run' = [run EXCEPT ![d] =
                  [r EXCEPT !.pc = "awaitGroup", !.inflight = group,
                            !.sent = r.sent \cup group, !.results = <<>>]]
        ELSE /\ requests' = requests
             /\ run' = [run EXCEPT ![d] =
                  [r EXCEPT !.pc = "catch", !.denied = TRUE,
                            !.error = DemoLimitExceededError("limit_exceeded")]]

\* Math.round(x) for x = n / m >= 0
Round(n, m) == (2 * n + m) \div (2 * m)

\* (variant) the whole scale is used for the requests
EmbeddingProgressFullScale(completedBatches, totalBatches) ==
  Round(completedBatches * 100, totalBatches)

\* Math.round((completedBatches / totalBatches) * 80)
EmbeddingProgress(completedBatches, totalBatches) ==
  Round(completedBatches * 80, totalBatches)

\* onProgress(p) of generateAndStoreEmbeddings: progress lists the values
\* reported so far
OnProgress(r, p) == [r EXCEPT !.progress = Append(@, p)]

\* entry of generateAndStoreEmbeddings and the first group
EmbedStart(d) ==
  /\ Pc(d, "embed")
  /\ IF Len(run[d].chunks) = 0
       THEN /\ run' = [run EXCEPT ![d] =
                 [OnProgress(run[d], 100) EXCEPT !.pc = "completeEmbeddingJob"]]
            /\ requests' = requests
       ELSE IssueGroup(d, run[d])
  /\ UNCHANGED << cases, documents, chunks, embeddings, processingJobs,
                  caseTables, allowed >>

\* a request of fetchEmbeddingBatch is answered with the vectors and the
\* tokens used: updateUsage({ inputTokens }), recorded in usage by batch,
\* then the result for Promise.all
BatchOk(d, b) ==
  /\ b \in run[d].inflight
  /\ run' = [run EXCEPT
       ![d].inflight = @ \ {b},
       ![d].usage = @ \cup {b},
       ![d].results = IF run[d].pc = "awaitGroup"
                        THEN (b :> BatchResult(Batch(run[d].chunks, b))) @@ @
                        ELSE @]
  /\ UNCHANGED << cases, documents, chunks, embeddings, processingJobs,
                  caseTables, allowed, requests >>

\* (variant) a failed request is swallowed and counts as an empty result
BatchFailSwallowed(d, b) ==
  /\ b \in run[d].inflight
  /\ run' = [run EXCEPT
       ![d].inflight = @ \ {b},
       ![d].failed = @ \cup {b},
       ![d].results = IF run[d].pc = "awaitGroup"
                        THEN (b :> [batch |-> <<>>, embeddings |-> <<>>,
                                    model |-> ""]) @@ @
                        ELSE @]
  /\ UNCHANGED << cases, documents, chunks, embeddings, processingJobs,
                  caseTables, allowed, requests >>

\* a request of fetchEmbeddingBatch is answered with an error status:
\* Promise.all rejects with the first rejection
BatchFail(d, b) ==
  /\ b \in run[d].inflight
  /\ run' = [run EXCEPT
       ![d].inflight = @ \ {b},
       ![d].failed = @ \cup {b},
       ![d].pc = IF @ = "awaitGroup" THEN "catch" ELSE @,
       ![d].error = IF run[d].pc = "awaitGroup"
                      THEN Err("Embedding generation failed") ELSE @]
  /\ UNCHANGED << cases, documents, chunks, embeddings, processingJobs,
                  caseTables, allowed, requests >>

\* results of Promise.all, in the order of parallelBatches
GroupResults(r) ==
  LET group == ParallelBatches(r.i, NumBatches(r.chunks))
  IN  [k \in 1..Cardinality(group) |-> r.results[r.i + k]]

\* Promise.all resolves: collect the results, report the progress, then
\* the next group or the end of the loop
GroupDone(d) ==
  /\ Pc(d, "awaitGroup")
  /\ run[d].inflight = {}
  /\ LET collected == run[d].allResults \o GroupResults(run[d])
         r == [OnProgress(run[d], EmbeddingProgress(Len(collected),
                                                    NumBatches(run[d].chunks)))
                 EXCEPT !.allResults = collected,
                        !.i = @ + PARALLEL_EMBEDDING_REQUESTS,
                        !.results = <<>>]
     IN  IF r.i < NumBatches(r.chunks)
           THEN IssueGroup(d, r)
           ELSE /\ run' = [run EXCEPT ![d] = [r EXCEPT !.pc = "store"]]
                /\ requests' = requests
  /\ UNCHANGED << cases, documents, chunks, embeddings, processingJobs,
                  caseTables, allowed >>

\* (variant) the last row is not written
NewEmbeddingsButLast(d, rows) ==
  { [id |-> <<d, k>>] @@ rows[k] : k \in (DOMAIN rows) \ {Len(rows)} }

\* createEmbeddings: the rows get their ids, one bulkAdd
NewEmbeddings(d, rows) ==
  { [id |-> <<d, k>>] @@ rows[k] : k \in DOMAIN rows }

\* await createEmbeddings(allEmbeddingsToStore), then onProgress(100)
StoreEmbeddings(d) ==
  /\ Pc(d, "store")
  /\ \/ /\ embeddings' = embeddings \cup
              NewEmbeddings(d, AllEmbeddingsToStore(run[d].allResults))
        /\ run' = [run EXCEPT ![d] =
             [OnProgress(run[d], 100) EXCEPT !.pc = "completeEmbeddingJob"]]
     \/ /\ embeddings' = embeddings
        /\ Throw(d, Err("bulkAdd failed"))
  /\ UNCHANGED << cases, documents, chunks, processingJobs, caseTables,
                  allowed, requests >>

CompleteEmbeddingJob(d) ==
  CompleteJob(d, "completeEmbeddingJob", "embedding", "setCompleted")

\* (variant) the progress callback throws after the document was completed
SetStatusCompletedThenThrow(d) ==
  /\ Pc(d, "setCompleted")
  /\ documents' = updateDocument(d, [status |-> "completed"])
  /\ Throw(d, Err("progress callback failed"))
  /\ UNCHANGED << cases, chunks, embeddings, processingJobs, caseTables,
                  allowed, requests >>

SetStatusCompleted(d) == SetStatus(d, "setCompleted", "completed", "done")

\* The single-record writes inside the try block.
TryWrites ==
  { "setOcr", "createOcrJob", "saveText", "completeOcrJob", "setChunking",
    "createChunkJob", "completeChunkJob", "setEmbedding",
    "createEmbeddingJob", "completeEmbeddingJob", "setCompleted" }

\* one of them is rejected by the store
WriteFails(d) ==
  /\ run[d].pc \in TryWrites
  /\ Throw(d, Err("store write failed"))
  /\ UNCHANGED << cases, documents, chunks, embeddings, processingJobs,
                  caseTables, allowed, requests >>

\* (variant) the catch block waits for a request that is never answered
CatchWaitsForever(d) ==
  /\ Pc(d, "catch")
  /\ Goto(d, "catchWait")
  /\ UNCHANGED << cases, documents, chunks, embeddings, processingJobs,
                  caseTables, allowed, requests >>

\* (variant) the error is rethrown without marking the document
CatchRethrowOnly(d) ==
  /\ Pc(d, "catch")
  /\ Goto(d, "raised")
  /\ UNCHANGED << cases, documents, chunks, embeddings, processingJobs,
                  caseTables, allowed, requests >>

\* catch (error): mark the document, then rethrow the same error
Catch(d) ==
  /\ Pc(d, "catch")
  /\ documents' = updateDocument(d, [status |-> "error",
                                     errorMessage |-> run[d].error.message])
  /\ Goto(d, "raised")
  /\ UNCHANGED << cases, chunks, embeddings, processingJobs, caseTables,
                  allowed, requests >>

\* ---------------------------------------------------------------------
\* Cascading deletes (one Dexie transaction each)
\* ---------------------------------------------------------------------
deleteDocument(d) ==
  /\ d \in DOMAIN documents
  /\ embeddings' = { e \in embeddings : e.documentId # d }
  /\ chunks' = { c \in chunks : c.documentId # d }
  /\ processingJobs' =
       TableRemove(processingJobs,
                   { j \in DOMAIN processingJobs : processingJobs[j].documentId = d })
  /\ documents' = TableRemove(documents, {d})
  /\ UNCHANGED << cases, caseTables, allowed, requests, run >>

\* (variant) the schema-version-3 transaction, without the theme tables
deleteCaseV3(c) ==
  /\ c \in cases
  /\ embeddings' = { e \in embeddings : e.caseId # c }
  /\ chunks' = { k \in chunks : k.caseId # c }
  /\ processingJobs' =
       TableRemove(processingJobs,
                   { j \in DOMAIN processingJobs : processingJobs[j].caseId = c })
  /\ documents' =
       TableRemove(documents, { d \in DOMAIN documents : documents[d].caseId = c })
  /\ searchHistory' = { h \in searchHistory : h.caseId # c }
  /\ cases' = cases \ {c}
  /\ UNCHANGED << suggestedQuestions, caseThemes, themeAnalysis, allowed,
                  requests, run, search, analysis, units >>

deleteCase(c) ==
  /\ c \in cases
  /\ embeddings' = { e \in embeddings : e.caseId # c }
  /\ chunks' = { k \in chunks : k.caseId # c }
  /\ processingJobs' =
       TableRemove(processingJobs,
                   { j \in DOMAIN processingJobs : processingJobs[j].caseId = c })
  /\ documents' =
       TableRemove(documents, { d \in DOMAIN documents : documents[d].caseId = c })
  /\ searchHistory' = { h \in searchHistory : h.caseId # c }
  /\ suggestedQuestions' = { q \in suggestedQuestions : q.caseId # c }
  /\ caseThemes' = { t \in caseThemes : t.caseId # c }
  /\ themeAnalysis' = { a \in themeAnalysis : a.caseId # c }
  /\ cases' = cases \ {c}
  /\ UNCHANGED << allowed, requests, run, search, analysis, units >>

\* ---------------------------------------------------------------------
\* The usage gate: the budget or the session runs out
\* ---------------------------------------------------------------------
LimitReached ==
  /\ allowed
  /\ allowed' = FALSE
  /\ UNCHANGED << cases, documents, chunks, embeddings, processingJobs,
                  caseTables, requests, run >>

\* ---------------------------------------------------------------------
\* The pipeline with the deletes and the gate
\* ---------------------------------------------------------------------
Next ==
  \/ \E d \in DOMAIN run, c \in CaseIds, file \in Files : UploadFile(d, c, file)
  \/ \E d \in DOMAIN run : GetDocument(d)
  \/ \E d \in DOMAIN run : SetStatusOcr(d)
  \/ \E d \in DOMAIN run : CreateOcrJob(d)
  \/ \E d \in DOMAIN run : ExtractPlainText(d)
  \/ \E d \in DOMAIN run : ExtractDocx(d)
  \/ \E d \in DOMAIN run : OcrSubmit(d)
  \/ \E d \in DOMAIN run : OcrSubmitResponse(d)
  \/ \E d \in DOMAIN run : OcrPoll(d)
  \/ \E d \in DOMAIN run : SaveText(d)
  \/ \E d \in DOMAIN run : CompleteOcrJob(d)
  \/ \E d \in DOMAIN run : SetStatusChunking(d)
  \/ \E d \in DOMAIN run : CreateChunkJob(d)
  \/ \E d \in DOMAIN run : CreateChunks(d)
  \/ \E d \in DOMAIN run : CompleteChunkJob(d)
  \/ \E d \in DOMAIN run : SetStatusEmbedding(d)
  \/ \E d \in DOMAIN run : CreateEmbeddingJob(d)
  \/ \E d \in DOMAIN run : EmbedStart(d)
  \/ \E d \in DOMAIN run : GroupDone(d)
  \/ \E d \in DOMAIN run : StoreEmbeddings(d)
  \/ \E d \in DOMAIN run : CompleteEmbeddingJob(d)
  \/ \E d \in DOMAIN run : SetStatusCompleted(d)
  \/ \E d \in DOMAIN run : WriteFails(d)
  \/ \E d \in DOMAIN run : Catch(d)
  \/ \E d \in DOMAIN run : \E b \in run[d].inflight : BatchOk(d, b)
  \/ \E d \in DOMAIN run : \E b \in run[d].inflight : BatchFail(d, b)
  \/ \E d \in DOMAIN run : deleteDocument(d)
  \/ \E c \in CaseIds : deleteCase(c)
  \/ LimitReached

Spec == Init /\ [][Next]_vars

\* ---------------------------------------------------------------------
\* The pipeline when every awaited call returns
\* ---------------------------------------------------------------------
\* the updateDocument of the catch block is rejected by the store: the
\* rejection replaces the error that is re-raised
CatchWriteFails(d) ==
  /\ Pc(d, "catch")
  /\ run' = [run EXCEPT ![d].pc = "raised",
                          ![d].error = Err("status write failed")]
  /\ UNCHANGED << cases, documents, chunks, embeddings, processingJobs,
                  caseTables, allowed, requests >>

\* a step of a processDocument run, or the answer to one of its requests
RunStep ==
  \E d \in DOMAIN run :
    \/ GetDocument(d)
    \/ SetStatusOcr(d)
    \/ CreateOcrJob(d)
    \/ ExtractPlainText(d)
    \/ ExtractDocx(d)
    \/ OcrSubmit(d)
    \/ OcrSubmitResponse(d)
    \/ OcrPoll(d)
    \/ SaveText(d)
    \/ CompleteOcrJob(d)
    \/ SetStatusChunking(d)
    \/ CreateChunkJob(d)
    \/ CreateChunks(d)
    \/ CompleteChunkJob(d)
    \/ SetStatusEmbedding(d)
    \/ CreateEmbeddingJob(d)
    \/ EmbedStart(d)
    \/ GroupDone(d)
    \/ StoreEmbeddings(d)
    \/ CompleteEmbeddingJob(d)
    \/ SetStatusCompleted(d)
    \/ WriteFails(d)
    \/ Catch(d)
    \/ CatchWriteFails(d)
    \/ \E b \in run[d].inflight : BatchOk(d, b)
    \/ \E b \in run[d].inflight : BatchFail(d, b)

NextRun ==
  \/ Next
  \/ \E d \in DOMAIN run : CatchWriteFails(d)

\* every remote request and every store operation of a run returns
SpecRun == Init /\ [][NextRun]_vars /\ WF_vars(RunStep)

\* ---------------------------------------------------------------------
\* useDocuments.uploadFiles: the loop over the files
\* ---------------------------------------------------------------------
\* The documents an uploadFiles call may create: the k-th file gets id k.
UploadDocIds == {1, 2}

\* the files given: plain text that yields no chunk or one chunk
UploadFileSet == { f \in Files : f.type = "text/plain" }

FileLists ==
  UNION { [1..n -> UploadFileSet] : n \in 0..Cardinality(UploadDocIds) }

\* uploadFiles(files) is called
UploadFilesCall(c, files) ==
  /\ upload.pc = "idle"
  /\ upload' = [upload EXCEPT !.pc = "loop", !.caseId = c, !.files = files,
                              !.k = 1]
  /\ UNCHANGED besidesUpload

\* (variant) the error of processDocument is not caught: the loop ends
UploadCatchRethrow ==
  /\ upload.pc = "processDocument"
  /\ run[upload.k].pc = "raised"
  /\ upload' = [upload EXCEPT !.pc = "rejected", !.active = @ \ {upload.k}]
  /\ UNCHANGED besidesUpload

\* await createDocument(...) for the next file, activeProcessingRef.add,
\* and processDocument up to its first await
UploadCreateDocument ==
  /\ upload.pc = "loop"
  /\ upload.k <= Len(upload.files)
  /\ LET d == upload.k
     IN  /\ documents' = TableAdd(documents, d,
                                  [caseId |-> upload.caseId, status |-> "pending",
                                   errorMessage |-> "", extractedText |-> 0])
         /\ run' = [run EXCEPT ![d].pc = "getDocument",
                                ![d].file = upload.files[d]]
         /\ upload' = [upload EXCEPT !.pc = "processDocument",
                                     !.active = @ \cup {d},
                                     !.started = Append(@, d)]
  /\ UNCHANGED << cases, chunks, embeddings, processingJobs, searchHistory,
                  caseThemes, suggestedQuestions, themeAnalysis, allowed,
                  requests, search, analysis, poll, chunker, dispatch, call,
                  otherAnalysis, otherSearch >>

\* createDocument is rejected by the store: uploadFiles rejects
UploadCreateFails ==
  /\ upload.pc = "loop"
  /\ upload.k <= Len(upload.files)
  /\ upload' = [upload EXCEPT !.pc = "rejected"]
  /\ UNCHANGED besidesUpload

\* processDocument resolved: await loadDocuments()
UploadProcessed ==
  /\ upload.pc = "processDocument"
  /\ run[upload.k].pc = "done"
  /\ upload' = [upload EXCEPT !.pc = "loadDocuments"]
  /\ UNCHANGED besidesUpload

\* loadDocuments returned (it catches its own errors):
\* activeProcessingRef.delete, then the next file
UploadLoaded ==
  /\ upload.pc = "loadDocuments"
  /\ upload' = [upload EXCEPT !.pc = "loop", !.active = @ \ {upload.k},
                              !.k = @ + 1]
  /\ UNCHANGED besidesUpload

\* catch (err): processDocument rejected; activeProcessingRef.delete, then
\* the next file
UploadCatch ==
  /\ upload.pc = "processDocument"
  /\ run[upload.k].pc = "raised"
  /\ upload' = [upload EXCEPT !.pc = "loop", !.active = @ \ {upload.k},
                              !.k = @ + 1]
  /\ UNCHANGED besidesUpload

\* the for loop is through
UploadReturn ==
  /\ upload.pc = "loop"
  /\ upload.k > Len(upload.files)
  /\ upload' = [upload EXCEPT !.pc = "returned"]
  /\ UNCHANGED besidesUpload

InitUpload == InitDocs(UploadDocIds)

\* uploadFiles with the pipeline of its text files; the store rejects
\* writes and the embedding service requests at any point, the gate may
\* close
NextUpload ==
  \/ \E c \in CaseIds, files \in FileLists : UploadFilesCall(c, files)
  \/ UploadCreateDocument
  \/ UploadCreateFails
  \/ UploadProcessed
  \/ UploadLoaded
  \/ UploadCatch
  \/ UploadReturn
  \/ \E d \in DOMAIN run : GetDocument(d)
  \/ \E d \in DOMAIN run : SetStatusOcr(d)
  \/ \E d \in DOMAIN run : CreateOcrJob(d)
  \/ \E d \in DOMAIN run : ExtractPlainText(d)
  \/ \E d \in DOMAIN run : SaveText(d)
  \/ \E d \in DOMAIN run : CompleteOcrJob(d)
  \/ \E d \in DOMAIN run : SetStatusChunking(d)
  \/ \E d \in DOMAIN run : CreateChunkJob(d)
  \/ \E d \in DOMAIN run : CreateChunks(d)
  \/ \E d \in DOMAIN run : CompleteChunkJob(d)
  \/ \E d \in DOMAIN run : SetStatusEmbedding(d)
  \/ \E d \in DOMAIN run : CreateEmbeddingJob(d)
  \/ \E d \in DOMAIN run : EmbedStart(d)
  \/ \E d \in DOMAIN run : GroupDone(d)
  \/ \E d \in DOMAIN run : StoreEmbeddings(d)
  \/ \E d \in DOMAIN run : CompleteEmbeddingJob(d)
  \/ \E d \in DOMAIN run : SetStatusCompleted(d)
  \/ \E d \in DOMAIN run : WriteFails(d)
  \/ \E d \in DOMAIN run : Catch(d)
  \/ \E d \in DOMAIN run : \E b \in run[d].inflight : BatchOk(d, b)
  \/ \E d \in DOMAIN run : \E b \in run[d].inflight : BatchFail(d, b)
  \/ LimitReached

\* every awaited call returns
SpecUpload == InitUpload /\ [][NextUpload]_vars /\ WF_vars(NextUpload)

\* ---------------------------------------------------------------------
\* useSearch.search
\* ---------------------------------------------------------------------
Queries == {"  ", "contract breach"}

\* searchQuery.trim() is empty
IsBlank(q) == q \in {"", " ", "  "}

\* semanticSearch over the embeddings of the case: the matching chunks
semanticSearch(c) == { e.chunkId : e \in { x \in embeddings : x.caseId = c } }

\* search(searchQuery) up to the request for the query embedding
SearchStart(c, q) ==
  /\ search.pc = "idle"
  /\ search.n < MaxSearches
  /\ c \in cases
  /\ IF IsBlank(q)
       THEN /\ search' = [search EXCEPT !.results = "null"]
            /\ requests' = requests
       ELSE /\ search' = [search EXCEPT !.pc = "awaitEmbedding", !.caseId = c,
                                        !.query = q, !.isSearching = TRUE,
                                        !.error = "", !.n = @ + 1]
            /\ requests' = requests \cup
                 {[kind |-> "query-embedding", checked |-> FALSE, gate |-> allowed]}
  /\ UNCHANGED << pipelineState, searchHistory, caseThemes,
                  suggestedQuestions, themeAnalysis, analysis >>

\* the answer to the query-embedding request
SearchEmbeddingResponse ==
  /\ search.pc = "awaitEmbedding"
  /\ \/ search' = [search EXCEPT !.pc = "semanticSearch"]
     \/ search' = [IdleSearch EXCEPT !.n = search.n, !.results = search.results,
                                     !.error = "Failed to generate query embedding"]
  /\ UNCHANGED << pipelineState, requests, searchHistory, caseThemes,
                  suggestedQuestions, themeAnalysis, analysis >>

\* await semanticSearch(...), then setResults
SemanticSearch ==
  /\ search.pc = "semanticSearch"
  /\ search' = [search EXCEPT !.pc = "saveHistory",
                              !.matches = semanticSearch(search.caseId),
                              !.results = search.query]
  /\ UNCHANGED << pipelineState, requests, searchHistory, caseThemes,
                  suggestedQuestions, themeAnalysis, analysis >>

\* (variant) the row is stored without the matches
SaveHistoryWithoutSnapshot ==
  /\ search.pc = "saveHistory"
  /\ searchHistory' = searchHistory \cup
       {[id |-> search.n, caseId |-> search.caseId, query |-> search.query,
         resultCount |-> Cardinality(search.matches), results |-> {}]}
  /\ search' = [IdleSearch EXCEPT !.n = search.n, !.results = search.results,
                                  !.error = search.error]
  /\ UNCHANGED << pipelineState, requests, caseThemes, suggestedQuestions,
                  themeAnalysis, analysis >>

\* await createSearchHistory(...), then finally
SaveHistory ==
  /\ search.pc = "saveHistory"
  /\ searchHistory' = searchHistory \cup
       {[id |-> search.n, caseId |-> search.caseId, query |-> search.query,
         resultCount |-> Cardinality(search.matches),
         results |-> search.matches]}
  /\ search' = [IdleSearch EXCEPT !.n = search.n, !.results = search.results,
                                  !.error = search.error]
  /\ UNCHANGED << pipelineState, requests, caseThemes, suggestedQuestions,
                  themeAnalysis, analysis >>

\* ---------------------------------------------------------------------
\* useThemes.triggerAnalysis and extractThemes
\* ---------------------------------------------------------------------
\* What parseThemeResponse makes of the reply of the model.
LLMResults ==
  { [themes |-> <<>>, suggestedQuestions |-> <<>>],
    [themes |-> << [title |-> "Fraud"], [title |-> "Breach"] >>,
     suggestedQuestions |->
       << [question |-> "q1", _themeTitle |-> "fraud"],
          [question |-> "q2", _themeTitle |-> "Other"] >>] }

\* String.toLowerCase on the titles in use
toLowerCase(t) ==
  CASE t = "Fraud" -> "fraud"
    [] t = "FRAUD" -> "fraud"
    [] t = "Breach" -> "breach"
    [] t = "Other" -> "other"
    [] OTHER -> t

\* (variant) the titles are compared as they are
FindThemeCaseSensitive(savedThemes, themeTitle) ==
  LET hits == { k \in DOMAIN savedThemes : savedThemes[k].title = themeTitle }
  IN  IF hits = {} THEN 0 ELSE CHOOSE k \in hits : \A m \in hits : k <= m

\* savedThemes.find(...): index of the first match, 0 if none
FindTheme(savedThemes, themeTitle) ==
  LET hits == { k \in DOMAIN savedThemes :
                  toLowerCase(savedThemes[k].title) = toLowerCase(themeTitle) }
  IN  IF hits = {} THEN 0 ELSE CHOOSE k \in hits : \A m \in hits : k <= m

\* A question without _themeTitle matches no theme (undefined is no
\* string); the key is removed and themeId is set.  The empty themeId ""
\* is written << >>, ids being tuples.
linkQuestionsToThemes(savedThemes, questions) ==
  [k \in DOMAIN questions |->
     LET q == questions[k]
         m == IF "_themeTitle" \in DOMAIN q
                THEN FindTheme(savedThemes, q._themeTitle) ELSE 0
         cleanQuestion == [f \in DOMAIN q \ {"_themeTitle"} |-> q[f]]
     IN  [themeId |-> IF m # 0 THEN savedThemes[m].id
                      ELSE IF savedThemes # <<>> THEN savedThemes[1].id
                      ELSE <<>>] @@ cleanQuestion]

\* createCaseThemes: the rows with their ids
NewThemes(c, themes, saveNo) ==
  [k \in DOMAIN themes |->
     [id |-> <<saveNo, k>>, caseId |-> c, title |-> themes[k].title]]

\* createSuggestedQuestions: the rows with their ids
NewQuestions(c, questions, saveNo) ==
  [k \in DOMAIN questions |->
     [id |-> <<saveNo, k>>, caseId |-> c, question |-> questions[k].question,
      themeId |-> questions[k].themeId]]

CompletedCount(c) ==
  Cardinality({ d \in DOMAIN documents :
                  documents[d].caseId = c /\ documents[d].status = "completed" })

AnalysesOf(c) == { a \in themeAnalysis : a.caseId = c }

\* db.themeAnalysis.update(id, updates)
updateThemeAnalysis(id, updates) ==
  { IF a.id = id THEN updates @@ a ELSE a : a \in themeAnalysis }

\* triggerAnalysis up to the result of getDocumentStats
TriggerAnalysis(c) ==
  /\ analysis.pc = "idle"
  /\ analysis.n < MaxAnalyses
  /\ c \in cases
  /\ IF CompletedCount(c) = 0
       THEN analysis' = [analysis EXCEPT
              !.error = "No completed documents to analyze",
              !.isAnalyzing = FALSE, !.n = @ + 1]
       ELSE analysis' = [analysis EXCEPT
              !.pc = "getChunks", !.caseId = c, !.isAnalyzing = TRUE,
              !.error = "", !.completedCount = CompletedCount(c), !.n = @ + 1,
              !.savedThemes = <<>>,
              !.result = [themes |-> <<>>, suggestedQuestions |-> <<>>]]
  /\ UNCHANGED << pipelineState, requests, searchHistory, caseThemes,
                  suggestedQuestions, themeAnalysis, search >>

\* await Promise.all([getChunksByCase, getEntitiesByCase])
GetChunks ==
  /\ analysis.pc = "getChunks"
  /\ IF { k \in chunks : k.caseId = analysis.caseId } = {}
       THEN analysis' = [IdleAnalysis EXCEPT
              !.n = analysis.n, !.error = "No document chunks found"]
       ELSE analysis' = [analysis EXCEPT !.pc = "getAnalysis"]
  /\ UNCHANGED << pipelineState, requests, searchHistory, caseThemes,
                  suggestedQuestions, themeAnalysis, search >>

\* await getThemeAnalysisByCase(caseId)
GetAnalysis ==
  /\ analysis.pc = "getAnalysis"
  /\ IF AnalysesOf(analysis.caseId) = {}
       THEN analysis' = [analysis EXCEPT !.pc = "createAnalysis"]
       ELSE \E a \in AnalysesOf(analysis.caseId) :
              analysis' = [analysis EXCEPT !.pc = "updateAnalysis",
                                           !.recordId = a.id]
  /\ UNCHANGED << pipelineState, requests, searchHistory, caseThemes,
                  suggestedQuestions, themeAnalysis, search >>

\* await createThemeAnalysis({ ..., status: "processing" })
CreateAnalysis ==
  /\ analysis.pc = "createAnalysis"
  /\ themeAnalysis' = themeAnalysis \cup
       {[id |-> analysis.n, caseId |-> analysis.caseId,
         documentCountAtAnalysis |-> analysis.completedCount,
         status |-> "processing"]}
  /\ analysis' = [analysis EXCEPT !.pc = "extractThemes", !.recordId = analysis.n]
  /\ UNCHANGED << pipelineState, requests, searchHistory, caseThemes,
                  suggestedQuestions, search >>

\* await updateThemeAnalysis(id, { status: "processing", ... })
UpdateAnalysis ==
  /\ analysis.pc = "updateAnalysis"
  /\ themeAnalysis' = updateThemeAnalysis(analysis.recordId,
       [status |-> "processing",
        documentCountAtAnalysis |-> analysis.completedCount])
  /\ analysis' = [analysis EXCEPT !.pc = "extractThemes"]
  /\ UNCHANGED << pipelineState, requests, searchHistory, caseThemes,
                  suggestedQuestions, search >>

\* extractThemes up to the request to the chat service
ExtractThemesSend ==
  /\ analysis.pc = "extractThemes"
  /\ requests' = requests \cup
       {[kind |-> "llm", checked |-> FALSE, gate |-> allowed]}
  /\ analysis' = [analysis EXCEPT !.pc = "awaitLLM"]
  /\ UNCHANGED << pipelineState, searchHistory, caseThemes,
                  suggestedQuestions, themeAnalysis, search >>

\* the reply: an error status throws, anything else is parsed
ExtractThemesResponse ==
  /\ analysis.pc = "awaitLLM"
  /\ \/ analysis' = [analysis EXCEPT
          !.pc = "catch", !.error = "Theme extraction API call failed"]
     \/ \E res \in LLMResults :
          analysis' = [analysis EXCEPT
            !.result = res,
            !.pc = IF res.themes = <<>> THEN "markFailed" ELSE "saveThemes",
            !.error = IF res.themes = <<>>
                        THEN "Could not extract themes from documents" ELSE @]
  /\ UNCHANGED << pipelineState, requests, searchHistory, caseThemes,
                  suggestedQuestions, themeAnalysis, search >>

\* (variant) the empty result is saved before the record is marked
MarkFailedAfterSave ==
  /\ analysis.pc = "markFailed"
  /\ themeAnalysis' = updateThemeAnalysis(analysis.recordId, [status |-> "failed"])
  /\ caseThemes' = { t \in caseThemes : t.caseId # analysis.caseId }
  /\ suggestedQuestions' =
       { q \in suggestedQuestions : q.caseId # analysis.caseId }
  /\ analysis' = [IdleAnalysis EXCEPT !.n = analysis.n, !.error = analysis.error]
  /\ UNCHANGED << pipelineState, requests, searchHistory, search >>

\* no themes: await updateThemeAnalysis(id, { status: "failed" })
MarkFailed ==
  /\ analysis.pc = "markFailed"
  /\ themeAnalysis' = updateThemeAnalysis(analysis.recordId, [status |-> "failed"])
  /\ analysis' = [IdleAnalysis EXCEPT !.n = analysis.n, !.error = analysis.error]
  /\ UNCHANGED << pipelineState, requests, searchHistory, caseThemes,
                  suggestedQuestions, search >>

\* (variant) the rows of the case are not deleted first
saveThemesAndQuestionsKeepOld(c, themes, questions, saveNo) ==
  /\ caseThemes' = caseThemes \cup Range(NewThemes(c, themes, saveNo))
  /\ suggestedQuestions' = suggestedQuestions
                     \cup Range(NewQuestions(c, questions, saveNo))

\* saveThemesAndQuestions: delete the rows of the case, add the new ones,
\* in one transaction
saveThemesAndQuestions(c, themes, questions, saveNo) ==
  /\ caseThemes' = { t \in caseThemes : t.caseId # c }
                     \cup Range(NewThemes(c, themes, saveNo))
  /\ suggestedQuestions' = { q \in suggestedQuestions : q.caseId # c }
                     \cup Range(NewQuestions(c, questions, saveNo))

\* await saveThemesAndQuestions(caseId, result.themes, [])
SaveThemes ==
  /\ analysis.pc = "saveThemes"
  /\ saveThemesAndQuestions(analysis.caseId, analysis.result.themes, <<>>,
                            2 * analysis.n)
  /\ analysis' = [analysis EXCEPT
       !.pc = "saveQuestions",
       !.savedThemes = NewThemes(analysis.caseId, analysis.result.themes,
                                 2 * analysis.n)]
  /\ UNCHANGED << pipelineState, requests, searchHistory, themeAnalysis, search >>

\* linkQuestionsToThemes, then
\* await saveThemesAndQuestions(caseId, result.themes, linkedQuestions)
SaveQuestions ==
  /\ analysis.pc = "saveQuestions"
  /\ saveThemesAndQuestions(
       analysis.caseId, analysis.result.themes,
       linkQuestionsToThemes(analysis.savedThemes,
                             analysis.result.suggestedQuestions),
       2 * analysis.n + 1)
  /\ analysis' = [analysis EXCEPT !.pc = "markCompleted"]
  /\ UNCHANGED << pipelineState, requests, searchHistory, themeAnalysis, search >>

\* await updateThemeAnalysis(id, { status: "completed", ... })
MarkCompleted ==
  /\ analysis.pc = "markCompleted"
  /\ themeAnalysis' = updateThemeAnalysis(analysis.recordId, [status |-> "completed"])
  /\ analysis' = [IdleAnalysis EXCEPT !.n = analysis.n]
  /\ UNCHANGED << pipelineState, requests, searchHistory, caseThemes,
                  suggestedQuestions, search >>

\* catch (err): the record of the case, if any, becomes failed
AnalysisCatch ==
  /\ analysis.pc = "catch"
  /\ IF AnalysesOf(analysis.caseId) = {}
       THEN themeAnalysis' = themeAnalysis
       ELSE \E a \in AnalysesOf(analysis.caseId) :
              themeAnalysis' = updateThemeAnalysis(a.id, [status |-> "failed"])
  /\ analysis' = [IdleAnalysis EXCEPT !.n = analysis.n, !.error = analysis.error]
  /\ UNCHANGED << pipelineState, requests, searchHistory, caseThemes,
                  suggestedQuestions, search >>

\* ---------------------------------------------------------------------
\* Search and theme analysis over processed documents, with the deletes
\* ---------------------------------------------------------------------
ProcessedDocs == {1, 2}

\* The run of a text file with one chunk that has completed.
DoneRun(d, c) ==
  LET file == [type |-> "text/plain", ext |-> "txt", text |-> 1]
      cs == NewChunks(d, c, file.text)
  IN  [IdleRun EXCEPT !.pc = "done", !.file = file, !.caseId = c,
                      !.extractedText = file.text, !.chunks = cs,
                      !.i = PARALLEL_EMBEDDING_REQUESTS, !.sent = {1},
                      !.allResults = << BatchResult(cs) >>,
                      !.progress = << EmbeddingProgress(1, 1), 100 >>,
                      !.usage = {1}]

\* Two processed documents, one of them in case 1, and the search
\* history given.
InitProcessed(history) ==
  \E caseOf \in { f \in [ProcessedDocs -> CaseIds] : f[1] = 1 } :
    /\ cases = CaseIds
    /\ run = [d \in ProcessedDocs |-> DoneRun(d, caseOf[d])]
    /\ documents = [d \in ProcessedDocs |->
         [caseId |-> caseOf[d], status |-> "completed", errorMessage |-> "",
          extractedText |-> run[d].extractedText]]
    /\ chunks = UNION { Range(run[d].chunks) : d \in ProcessedDocs }
    /\ embeddings = UNION { NewEmbeddings(d, AllEmbeddingsToStore(run[d].allResults)) :
                            d \in ProcessedDocs }
    /\ processingJobs =
         [j \in ProcessedDocs \X {"ocr", "chunking", "embedding"} |->
            [documentId |-> j[1], caseId |-> caseOf[j[1]], type |-> j[2],
             status |-> "completed"]]
    /\ searchHistory = history
    /\ caseThemes = {}
    /\ suggestedQuestions = {}
    /\ themeAnalysis = {}
    /\ allowed = TRUE
    /\ requests = {[kind |-> "embedding", checked |-> TRUE, gate |-> TRUE]}
    /\ search = IdleSearch
    /\ analysis = IdleAnalysis
    /\ poll = IdlePoll
    /\ chunker = IdleChunker
    /\ dispatch = IdleDispatch
    /\ call = IdleCall
    /\ upload = IdleUpload
    /\ otherAnalysis = IdleOtherAnalysis
    /\ otherSearch = IdleOtherSearch

InitCase == InitProcessed({})

NextCase ==
  \/ \E c \in CaseIds, q \in Queries : SearchStart(c, q)
  \/ SearchEmbeddingResponse
  \/ SemanticSearch
  \/ SaveHistory
  \/ \E c \in CaseIds : TriggerAnalysis(c)
  \/ GetChunks
  \/ GetAnalysis
  \/ CreateAnalysis
  \/ UpdateAnalysis
  \/ ExtractThemesSend
  \/ ExtractThemesResponse
  \/ MarkFailed
  \/ SaveThemes
  \/ SaveQuestions
  \/ MarkCompleted
  \/ AnalysisCatch
  \/ \E d \in DOMAIN run : deleteDocument(d)
  \/ \E c \in CaseIds : deleteCase(c)

SpecCase == InitCase /\ [][NextCase]_vars

\* The theme analysis and the deletes alone, without a search running.
NextThemes ==
  \/ \E c \in CaseIds : TriggerAnalysis(c)
  \/ GetChunks
  \/ GetAnalysis
  \/ CreateAnalysis
  \/ UpdateAnalysis
  \/ ExtractThemesSend
  \/ ExtractThemesResponse
  \/ MarkFailed
  \/ SaveThemes
  \/ SaveQuestions
  \/ MarkCompleted
  \/ AnalysisCatch
  \/ \E d \in DOMAIN run : deleteDocument(d)
  \/ \E c \in CaseIds : deleteCase(c)

SpecThemes == InitCase /\ [][NextThemes]_vars

\* ---------------------------------------------------------------------
\* triggerAnalysis of a second useThemes hook on the same store (the
\* page open twice), followed up to the write of its analysis record;
\* from there on it goes on like the first
\* ---------------------------------------------------------------------
OtherTriggerAnalysis(c) ==
  /\ otherAnalysis.pc = "idle"
  /\ c \in cases
  /\ otherAnalysis' =
       IF CompletedCount(c) = 0
         THEN [otherAnalysis EXCEPT !.pc = "returned", !.caseId = c]
         ELSE [otherAnalysis EXCEPT !.pc = "getChunks", !.caseId = c,
                                    !.completedCount = CompletedCount(c)]
  /\ UNCHANGED << besidesOtherAnalysis, themeAnalysis >>

\* await Promise.all([getChunksByCase, getEntitiesByCase])
OtherGetChunks ==
  /\ otherAnalysis.pc = "getChunks"
  /\ otherAnalysis' =
       IF { k \in chunks : k.caseId = otherAnalysis.caseId } = {}
         THEN [otherAnalysis EXCEPT !.pc = "returned"]
         ELSE [otherAnalysis EXCEPT !.pc = "getAnalysis"]
  /\ UNCHANGED << besidesOtherAnalysis, themeAnalysis >>

\* await getThemeAnalysisByCase(caseId)
OtherGetAnalysis ==
  /\ otherAnalysis.pc = "getAnalysis"
  /\ IF AnalysesOf(otherAnalysis.caseId) = {}
       THEN otherAnalysis' = [otherAnalysis EXCEPT !.pc = "createAnalysis"]
       ELSE \E a \in AnalysesOf(otherAnalysis.caseId) :
              otherAnalysis' = [otherAnalysis EXCEPT !.pc = "updateAnalysis",
                                                     !.recordId = a.id]
  /\ UNCHANGED << besidesOtherAnalysis, themeAnalysis >>

\* await createThemeAnalysis({ ..., status: "processing" }); the ids of
\* this hook's records are negative, those of the first hook positive
OtherCreateAnalysis ==
  /\ otherAnalysis.pc = "createAnalysis"
  /\ themeAnalysis' = themeAnalysis \cup
       {[id |-> -1, caseId |-> otherAnalysis.caseId,
         documentCountAtAnalysis |-> otherAnalysis.completedCount,
         status |-> "processing"]}
  /\ otherAnalysis' = [otherAnalysis EXCEPT !.pc = "extractThemes",
                                            !.recordId = -1]
  /\ UNCHANGED besidesOtherAnalysis

\* await updateThemeAnalysis(id, { status: "processing", ... })
OtherUpdateAnalysis ==
  /\ otherAnalysis.pc = "updateAnalysis"
  /\ themeAnalysis' = updateThemeAnalysis(otherAnalysis.recordId,
       [status |-> "processing",
        documentCountAtAnalysis |-> otherAnalysis.completedCount])
  /\ otherAnalysis' = [otherAnalysis EXCEPT !.pc = "extractThemes"]
  /\ UNCHANGED besidesOtherAnalysis

NextTwoHooks ==
  \/ NextThemes
  \/ \E c \in CaseIds : OtherTriggerAnalysis(c)
  \/ OtherGetChunks
  \/ OtherGetAnalysis
  \/ OtherCreateAnalysis
  \/ OtherUpdateAnalysis

SpecTwoHooks == InitCase /\ [][NextTwoHooks]_vars

\* ---------------------------------------------------------------------
\* A second search() call of the same useSearch hook, made while the
\* first one is running: its locals are otherSearch, the hook's state
\* (results, isSearching, error) is shared
\* ---------------------------------------------------------------------
OtherQueries == {"  ", "late delivery"}

\* search(searchQuery) up to the request for the query embedding
OtherSearchStart(q) ==
  /\ otherSearch.pc = "idle"
  /\ search.pc # "idle"
  /\ IF IsBlank(q)
       THEN /\ search' = [search EXCEPT !.results = "null"]
            /\ otherSearch' = [otherSearch EXCEPT !.pc = "done", !.query = q,
                                                  !.outcome = "blank"]
            /\ requests' = requests
       ELSE /\ search' = [search EXCEPT !.isSearching = TRUE, !.error = ""]
            /\ otherSearch' = [otherSearch EXCEPT !.pc = "awaitEmbedding",
                                                  !.query = q]
            /\ requests' = requests \cup
                 {[kind |-> "query-embedding", checked |-> FALSE, gate |-> allowed]}
  /\ UNCHANGED << besidesOtherSearch, searchHistory >>

\* the answer to the query-embedding request
OtherSearchEmbeddingResponse ==
  /\ otherSearch.pc = "awaitEmbedding"
  /\ \/ /\ otherSearch' = [otherSearch EXCEPT !.pc = "semanticSearch"]
        /\ search' = search
     \/ /\ otherSearch' = [otherSearch EXCEPT !.pc = "done", !.outcome = "failed"]
        /\ search' = [search EXCEPT
                        !.error = "Failed to generate query embedding",
                        !.isSearching = FALSE]
  /\ UNCHANGED << besidesOtherSearch, searchHistory, requests >>

\* await semanticSearch(...), then setResults
OtherSemanticSearch ==
  /\ otherSearch.pc = "semanticSearch"
  /\ otherSearch' = [otherSearch EXCEPT !.pc = "saveHistory",
                                        !.matches = semanticSearch(search.caseId)]
  /\ search' = [search EXCEPT !.results = otherSearch.query]
  /\ UNCHANGED << besidesOtherSearch, searchHistory, requests >>

\* await createSearchHistory(...), then finally; the row ids of this
\* call are negative
OtherSaveHistory ==
  /\ otherSearch.pc = "saveHistory"
  /\ searchHistory' = searchHistory \cup
       {[id |-> -1, caseId |-> search.caseId, query |-> otherSearch.query,
         resultCount |-> Cardinality(otherSearch.matches),
         results |-> otherSearch.matches]}
  /\ otherSearch' = [otherSearch EXCEPT !.pc = "done", !.outcome = "ok"]
  /\ search' = [search EXCEPT !.isSearching = FALSE]
  /\ UNCHANGED << besidesOtherSearch, requests >>

NextTwoSearches ==
  \/ \E c \in CaseIds, q \in Queries : SearchStart(c, q)
  \/ SearchEmbeddingResponse
  \/ SemanticSearch
  \/ SaveHistory
  \/ \E q \in OtherQueries : OtherSearchStart(q)
  \/ OtherSearchEmbeddingResponse
  \/ OtherSemanticSearch
  \/ OtherSaveHistory
  \/ \E d \in DOMAIN run : deleteDocument(d)

SpecTwoSearches == InitCase /\ [][NextTwoSearches]_vars

\* The same with the usage gate closing at any moment.  search and
\* triggerAnalysis never read the gate, so it only shows in the requests
\* on record.
NextGate ==
  \/ NextCase
  \/ LimitReached

SpecGate == InitCase /\ [][NextGate]_vars

\* ---------------------------------------------------------------------
\* useSearch.loadPreviousSearch over stored searches
\* ---------------------------------------------------------------------
\* Rows of earlier searches of case 1: one with a match, one that matched
\* nothing, one stored without a snapshot.
StoredSearches ==
  { [id |-> 11, caseId |-> 1, query |-> "contract breach",
     resultCount |-> 1, results |-> {<<1, 0>>}],
    [id |-> 12, caseId |-> 1, query |-> "contract breach",
     resultCount |-> 0, results |-> {}],
    [id |-> 13, caseId |-> 1, query |-> "contract breach",
     resultCount |-> 1] }

\* the ids asked for: those of the rows and one of no row
SearchIds == { h.id : h \in StoredSearches } \cup {14}

\* !history.results || history.results.length === 0
HasNoStoredResults(history) ==
  "results" \notin DOMAIN history \/ history.results = {}

\* loadPreviousSearch(searchId) in the hook of case c
LoadPreviousSearch(c, searchId) ==
  /\ search.pc = "idle"
  /\ LET found == { h \in searchHistory : h.id = searchId }
         history == CHOOSE h \in found : TRUE
     IN  IF found = {}
           THEN /\ search' = [search EXCEPT !.error = "Search not found"]
                /\ UNCHANGED << pipelineState, requests, searchHistory,
                                caseThemes, suggestedQuestions, themeAnalysis,
                                analysis >>
           ELSE IF HasNoStoredResults(history)
             THEN SearchStart(c, history.query)
             ELSE /\ search' = [search EXCEPT !.error = "",
                                              !.query = history.query,
                                              !.results = history.query,
                                              !.matches = history.results]
                  /\ UNCHANGED << pipelineState, requests, searchHistory,
                                  caseThemes, suggestedQuestions,
                                  themeAnalysis, analysis >>

InitReplay == \E history \in SUBSET StoredSearches : InitProcessed(history)

NextReplay ==
  \/ \E c \in CaseIds, searchId \in SearchIds : LoadPreviousSearch(c, searchId)
  \/ SearchEmbeddingResponse
  \/ SemanticSearch
  \/ SaveHistory

SpecReplay == InitReplay /\ [][NextReplay]_vars

\* ---------------------------------------------------------------------
\* extractTextViaOCR: the poll loop after the submission
\* ---------------------------------------------------------------------
OCR_POLL_INTERVAL == 2000

OCR_MAX_WAIT == 300000

MAX_STUCK_POLLS == 30

\* the largest chunk counter the OCR service reports
MaxOcrChunks == 1

\* the time a status request takes to return, in ms
Latencies == {0, 10000}

\* What a status request returns: an error status, or a report.
StatusResponses ==
  { [ok |-> FALSE, status |-> "", chunksCompleted |-> 0, chunksProcessing |-> 0] }
  \cup [ok : {TRUE},
        status : {"queued", "processing", "completed", "failed"},
        chunksCompleted : 0..MaxOcrChunks,
        chunksProcessing : 0..MaxOcrChunks]

\* hasProgress of the poll loop
hasProgress(p, resp) ==
  \/ resp.status # p.lastStatus
  \/ resp.chunksCompleted # p.lastChunksCompleted
  \/ resp.chunksProcessing > 0

\* The answer is a report of a job that is neither completed nor failed.
Reports(resp) == resp.ok /\ resp.status \notin {"completed", "failed"}

\* The answer of a poll moved against the answer of the poll before it:
\* another status, another chunksCompleted, or chunks in processing.
\* The first poll has no poll before it and counts as moved.
Moved(p, resp) ==
  \/ p.polls = 0
  \/ resp.status # p.prev.status
  \/ resp.chunksCompleted # p.prev.chunksCompleted
  \/ resp.chunksProcessing > 0

\* (variant) progress resets the counter but lastStatus and
\* lastChunksCompleted keep their initial values
AfterPollKeepLast(p, resp) ==
  IF ~resp.ok
    THEN [p EXCEPT !.pc = "done", !.outcome = "Failed to check OCR status"]
  ELSE IF resp.status = "completed"
    THEN [p EXCEPT !.pc = "done", !.outcome = "text", !.progress = 100]
  ELSE IF resp.status = "failed"
    THEN [p EXCEPT !.pc = "done", !.outcome = "OCR processing failed"]
  ELSE IF ~hasProgress(p, resp)
    THEN IF p.stuckCount + 1 >= MAX_STUCK_POLLS
           THEN [p EXCEPT !.pc = "done", !.stuckCount = @ + 1,
                          !.outcome = "OCR job appears stuck"]
           ELSE [p EXCEPT !.stuckCount = @ + 1, !.progress = Min(@ + 5, 90)]
  ELSE [p EXCEPT !.stuckCount = 0, !.progress = Min(@ + 5, 90)]

\* (variant) the counter is not reset when progress was made
AfterPollNoReset(p, resp) ==
  IF ~resp.ok
    THEN [p EXCEPT !.pc = "done", !.outcome = "Failed to check OCR status"]
  ELSE IF resp.status = "completed"
    THEN [p EXCEPT !.pc = "done", !.outcome = "text", !.progress = 100]
  ELSE IF resp.status = "failed"
    THEN [p EXCEPT !.pc = "done", !.outcome = "OCR processing failed"]
  ELSE IF p.stuckCount + 1 >= MAX_STUCK_POLLS
    THEN [p EXCEPT !.pc = "done", !.stuckCount = @ + 1,
                   !.outcome = "OCR job appears stuck"]
  ELSE [p EXCEPT !.stuckCount = @ + 1, !.progress = Min(@ + 5, 90)]

\* The locals after the body of one iteration that got resp.
AfterPoll(p, resp) ==
  IF ~resp.ok
    THEN [p EXCEPT !.pc = "done", !.outcome = "Failed to check OCR status"]
  ELSE IF resp.status = "completed"
    THEN [p EXCEPT !.pc = "done", !.outcome = "text", !.progress = 100]
  ELSE IF resp.status = "failed"
    THEN [p EXCEPT !.pc = "done", !.outcome = "OCR processing failed"]
  ELSE IF ~hasProgress(p, resp)
    THEN IF p.stuckCount + 1 >= MAX_STUCK_POLLS
           THEN [p EXCEPT !.pc = "done", !.stuckCount = @ + 1,
                          !.outcome = "OCR job appears stuck"]
           ELSE [p EXCEPT !.stuckCount = @ + 1, !.progress = Min(@ + 5, 90)]
  ELSE [p EXCEPT !.stuckCount = 0, !.lastStatus = resp.status,
                 !.lastChunksCompleted = resp.chunksCompleted,
                 !.progress = Min(@ + 5, 90)]

\* const startTime = Date.now(), with a service of the given latency
PollStart(latency) ==
  /\ poll.pc = "idle"
  /\ poll' = [poll EXCEPT !.pc = "polling", !.latency = latency]
  /\ UNCHANGED << cases, documents, chunks, embeddings, processingJobs,
                  searchHistory, caseThemes, suggestedQuestions, themeAnalysis,
                  allowed, requests, run, search, analysis, chunker, dispatch,
                  call, upload,
                  otherAnalysis, otherSearch >>

\* (variant) the clock stands still
PollFrozenClock(resp) ==
  /\ poll.pc = "polling"
  /\ poll.elapsed < OCR_MAX_WAIT
  /\ LET same == poll.constant /\ (poll.polls = 0 \/ resp = poll.first)
         p == [poll EXCEPT
                 !.polls = @ + 1,
                 !.constant = same,
                 !.first = IF same THEN resp ELSE <<>>,
                 !.prev = IF Reports(resp) THEN resp ELSE @,
                 !.quiet = IF ~Reports(resp) THEN @
                           ELSE IF Moved(poll, resp) THEN 0 ELSE @ + 1]
     IN  poll' = AfterPoll(p, resp)
  /\ UNCHANGED << cases, documents, chunks, embeddings, processingJobs,
                  searchHistory, caseThemes, suggestedQuestions, themeAnalysis,
                  allowed, requests, run, search, analysis, chunker, dispatch,
                  call, upload,
                  otherAnalysis, otherSearch >>

\* One iteration: the loop condition holds, sleep, the status request and
\* the body.  first and constant record whether every answer so far was
\* the same; prev is the report of this poll for the next one, and quiet
\* counts the polls in a row whose report did not move.
Poll(resp) ==
  /\ poll.pc = "polling"
  /\ poll.elapsed < OCR_MAX_WAIT
  /\ LET same == poll.constant /\ (poll.polls = 0 \/ resp = poll.first)
         p == [poll EXCEPT
                 !.elapsed = @ + OCR_POLL_INTERVAL + poll.latency,
                 !.polls = @ + 1,
                 !.constant = same,
                 !.first = IF same THEN resp ELSE <<>>,
                 !.prev = IF Reports(resp) THEN resp ELSE @,
                 !.quiet = IF ~Reports(resp) THEN @
                           ELSE IF Moved(poll, resp) THEN 0 ELSE @ + 1]
     IN  poll' = AfterPoll(p, resp)
  /\ UNCHANGED << cases, documents, chunks, embeddings, processingJobs,
                  searchHistory, caseThemes, suggestedQuestions, themeAnalysis,
                  allowed, requests, run, search, analysis, chunker, dispatch,
                  call, upload,
                  otherAnalysis, otherSearch >>

\* The loop condition fails: throw new Error("OCR timed out")
PollTimeout ==
  /\ poll.pc = "polling"
  /\ poll.elapsed >= OCR_MAX_WAIT
  /\ poll' = [poll EXCEPT !.pc = "done", !.outcome = "OCR timed out"]
  /\ UNCHANGED << cases, documents, chunks, embeddings, processingJobs,
                  searchHistory, caseThemes, suggestedQuestions, themeAnalysis,
                  allowed, requests, run, search, analysis, chunker, dispatch,
                  call, upload,
                  otherAnalysis, otherSearch >>

NextOcr ==
  \/ \E latency \in Latencies : PollStart(latency)
  \/ \E resp \in StatusResponses : Poll(resp)
  \/ PollTimeout

\* every status request returns
SpecOcr == Init /\ [][NextOcr]_vars /\ WF_vars(NextOcr)

\* ---------------------------------------------------------------------
\* extractText: the dispatch on the file type
\* ---------------------------------------------------------------------
MimeTypes ==
  OCR_REQUIRED_TYPES \cup DOCX_TYPES \cup
  { "text/plain", "", "application/octet-stream", "text/csv",
    "application/msword" }

Extensions == { "txt", "docx", "pdf", "png", "jpg", "md", "doc", "" }

\* the switch of extractText
Extractor(category) ==
  CASE category = "text" -> "extractTextFromPlainText"
    [] category = "docx" -> "extractTextFromDocx"
    [] category = "ocr" -> "extractTextViaOCR"

\* const fileType = getFileTypeCategory(file)
Dispatch(file) ==
  /\ dispatch.pc = "idle"
  /\ dispatch' = [dispatch EXCEPT !.pc = "switch", !.file = file,
                                  !.category = getFileTypeCategory(file)]
  /\ UNCHANGED << cases, documents, chunks, embeddings, processingJobs,
                  searchHistory, caseThemes, suggestedQuestions, themeAnalysis,
                  allowed, requests, run, search, analysis, poll, chunker, call, upload,
                  otherAnalysis, otherSearch >>

\* switch (fileType)
CallExtractor ==
  /\ dispatch.pc = "switch"
  /\ dispatch' = [dispatch EXCEPT !.pc = Extractor(dispatch.category)]
  /\ UNCHANGED << cases, documents, chunks, embeddings, processingJobs,
                  searchHistory, caseThemes, suggestedQuestions, themeAnalysis,
                  allowed, requests, run, search, analysis, poll, chunker, call, upload,
                  otherAnalysis, otherSearch >>

NextDispatch ==
  \/ \E type \in MimeTypes, ext \in Extensions :
       Dispatch([type |-> type, ext |-> ext, text |-> 0])
  \/ CallExtractor

SpecDispatch == Init /\ [][NextDispatch]_vars

\* ---------------------------------------------------------------------
\* chunkText
\* ---------------------------------------------------------------------
CHUNK_SIZE == 1000

CHUNK_OVERLAP == 200

\* the longest text
MaxTextLen == 2500

\* A text is given by its length and the pattern of its characters.
TextKinds ==
  { "letters", "sentences", "spaced", "period0", "blank", "gap", "lines" }

TextLengths ==
  { 0, 1, CHUNK_OVERLAP - 1, CHUNK_OVERLAP, CHUNK_OVERLAP + 1, CHUNK_SIZE - 1,
    CHUNK_SIZE, CHUNK_SIZE + 1, MaxTextLen - CHUNK_SIZE, MaxTextLen }

Texts == [kind : TextKinds, len : TextLengths]

\* text[i], 0-based
CharAt(text, i) ==
  CASE text.kind = "letters" -> "a"
    [] text.kind = "sentences" -> IF i % 10 = 9 THEN "." ELSE "a"
    [] text.kind = "spaced" ->
         IF i % 10 = 8 THEN "." ELSE IF i % 10 = 9 THEN " " ELSE "a"
    [] text.kind = "period0" -> IF i % 10 = 0 THEN "." ELSE "a"
    [] text.kind = "blank" -> " "
    [] text.kind = "gap" ->
         IF i >= 300 /\ i < text.len - 300 THEN " " ELSE "a"
    [] text.kind = "lines" -> IF i % 400 = 399 THEN "\n" ELSE "a"

SetMin(S) == CHOOSE x \in S : \A y \in S : x <= y

SetMax(S) == 0 - SetMin({ 0 - x : x \in S })

Max(a, b) == IF a > b THEN a ELSE b

\* text.lastIndexOf(ch, fromIndex)
lastIndexOf(text, ch, fromIndex) ==
  LET found == { i \in 0..Min(fromIndex, text.len - 1) : CharAt(text, i) = ch }
  IN  IF found = {} THEN -1 ELSE SetMax(found)

IsSpace(c) == c \in {" ", "\n"}

\* text.slice(start, end).trim(), as the slice of the text that is left
trim(text, start, end) ==
  LET solid == { i \in start..(end - 1) : ~IsSpace(CharAt(text, i)) }
  IN  IF solid = {} THEN [from |-> start, to |-> start]
      ELSE [from |-> SetMin(solid), to |-> SetMax(solid) + 1]

ContentLength(content) == content.to - content.from

\* the end of the window that starts at start
WindowEnd(text, start) ==
  LET end == Min(start + CHUNK_SIZE, text.len)
      breakPoint == Max(lastIndexOf(text, ".", end), lastIndexOf(text, "\n", end))
  IN  IF end < text.len /\ 2 * breakPoint > 2 * start + CHUNK_SIZE
        THEN breakPoint + 1
        ELSE end

\* start <= chunks[chunks.length - 1].startOffset, after start = end - overlap
ForcedAdvance(start, end) == end - CHUNK_OVERLAP <= start

\* (variant) the window start is not forced forward
NextStartUnforced(start, end) == end - CHUNK_OVERLAP

\* Move start with overlap; start = end when that would not advance
NextStart(start, end) ==
  IF ForcedAdvance(start, end) THEN end ELSE end - CHUNK_OVERLAP

\* chunks.filter((chunk) => chunk.content.length > 0)
filterNonEmpty(chunkSeq) ==
  SelectSeq(chunkSeq, LAMBDA chunk : ContentLength(chunk.content) > 0)

\* (variant) the index is the position in the unfiltered list
ChunkRowsLoopIndex(textChunks) ==
  [k \in 1..Len(textChunks) |->
     [chunkIndex |->
        (CHOOSE m \in 1..Len(chunker.chunks) :
           chunker.chunks[m].startOffset = textChunks[k].startOffset) - 1,
      content |-> textChunks[k].content,
      startOffset |-> textChunks[k].startOffset,
      endOffset |-> textChunks[k].endOffset]]

\* textChunks.map((chunk, index) => ({ ..., chunkIndex: index, ... }))
ChunkRows(textChunks) ==
  [k \in 1..Len(textChunks) |->
     [chunkIndex |-> k - 1, content |-> textChunks[k].content,
      startOffset |-> textChunks[k].startOffset,
      endOffset |-> textChunks[k].endOffset]]

\* chunkText(text) is called
ChunkStart(text) ==
  /\ chunker.pc = "idle"
  /\ chunker' = [chunker EXCEPT !.pc = "loop", !.text = text]
  /\ UNCHANGED << cases, documents, chunks, embeddings, processingJobs,
                  searchHistory, caseThemes, suggestedQuestions, themeAnalysis,
                  allowed, requests, run, search, analysis, poll, dispatch, call, upload,
                  otherAnalysis, otherSearch >>

\* forced[k]: the start of chunk k was set by the forcing branch
WasForced ==
  /\ chunker.chunks # <<>>
  /\ LET last == chunker.chunks[Len(chunker.chunks)]
     IN  ForcedAdvance(last.startOffset, last.endOffset)

\* (variant) the overlap is taken from the end of the window before it
\* was moved to the sentence break
ChunkStepOverlapFromWindow ==
  /\ chunker.pc = "loop"
  /\ chunker.start < chunker.text.len
  /\ LET end == WindowEnd(chunker.text, chunker.start)
     IN  chunker' = [chunker EXCEPT
           !.chunks = Append(@, [content |-> trim(chunker.text, chunker.start, end),
                                 startOffset |-> chunker.start,
                                 endOffset |-> end]),
           !.forced = Append(@, WasForced),
           !.start = NextStart(chunker.start,
                               Min(chunker.start + CHUNK_SIZE, chunker.text.len))]
  /\ UNCHANGED << cases, documents, chunks, embeddings, processingJobs,
                  searchHistory, caseThemes, suggestedQuestions, themeAnalysis,
                  allowed, requests, run, search, analysis, poll, dispatch, call, upload,
                  otherAnalysis, otherSearch >>

\* One iteration of the while loop.
ChunkStep ==
  /\ chunker.pc = "loop"
  /\ chunker.start < chunker.text.len
  /\ LET end == WindowEnd(chunker.text, chunker.start)
     IN  chunker' = [chunker EXCEPT
           !.chunks = Append(@, [content |-> trim(chunker.text, chunker.start, end),
                                 startOffset |-> chunker.start,
                                 endOffset |-> end]),
           !.forced = Append(@, WasForced),
           !.start = NextStart(chunker.start, end)]
  /\ UNCHANGED << cases, documents, chunks, embeddings, processingJobs,
                  searchHistory, caseThemes, suggestedQuestions, themeAnalysis,
                  allowed, requests, run, search, analysis, poll, dispatch, call, upload,
                  otherAnalysis, otherSearch >>

\* The loop condition fails: return the non-empty chunks.
ChunkReturn ==
  /\ chunker.pc = "loop"
  /\ chunker.start >= chunker.text.len
  /\ chunker' = [chunker EXCEPT !.pc = "done",
                                !.result = filterNonEmpty(chunker.chunks)]
  /\ UNCHANGED << cases, documents, chunks, embeddings, processingJobs,
                  searchHistory, caseThemes, suggestedQuestions, themeAnalysis,
                  allowed, requests, run, search, analysis, poll, dispatch, call, upload,
                  otherAnalysis, otherSearch >>

NextChunk ==
  \/ \E text \in Texts : ChunkStart(text)
  \/ ChunkStep
  \/ ChunkReturn

SpecChunk == Init /\ [][NextChunk]_vars /\ WF_vars(NextChunk)

\* ---------------------------------------------------------------------
\* linkQuestionsToThemes on its own
\* ---------------------------------------------------------------------
\* lists of at most n elements of S
SeqsUpTo(S, n) == UNION { [1..k -> S] : k \in 0..n }

LinkTitles == {"Fraud", "fraud", "Breach"}

\* saved themes: the k-th one has id <<1, k>>
LinkThemes ==
  { [k \in DOMAIN ts |-> [id |-> <<1, k>>, caseId |-> 1, title |-> ts[k]]] :
      ts \in SeqsUpTo(LinkTitles, 2) }

\* parsed questions, with the temporary key or without it
LinkQuestion ==
  { [question |-> "q", _themeTitle |-> t] : t \in {"fraud", "FRAUD", "Other"} }
    \cup { [question |-> "q"] }

LinkQuestions == SeqsUpTo(LinkQuestion, 2) \ { <<>> }

LinkCall(savedThemes, questions) ==
  /\ call.pc = "idle"
  /\ call' = [fn |-> "linkQuestionsToThemes", pc |-> "called",
              savedThemes |-> savedThemes, questions |-> questions]
  /\ UNCHANGED appState

LinkReturn ==
  /\ call.pc = "called"
  /\ call.fn = "linkQuestionsToThemes"
  /\ call' = [fn |-> call.fn, pc |-> "returned",
              savedThemes |-> call.savedThemes, questions |-> call.questions,
              result |-> linkQuestionsToThemes(call.savedThemes, call.questions)]
  /\ UNCHANGED appState

NextLink ==
  \/ \E ts \in LinkThemes, qs \in LinkQuestions : LinkCall(ts, qs)
  \/ LinkReturn

SpecLink == Init /\ [][NextLink]_vars

\* ---------------------------------------------------------------------
\* useThemes.loadThemes and useShouldAnalyzeThemes: the refresh decision
\* ---------------------------------------------------------------------
MaxDocCount == 13

\* getThemeAnalysisByCase found no record
NoAnalysis == [status |-> "none", documentCountAtAnalysis |-> 0]

\* What getThemeAnalysisByCase may return.  A record is written only with
\* a positive count of completed documents.
ExistingAnalyses ==
  { NoAnalysis } \cup
    [status : {"processing", "completed", "failed"},
     documentCountAtAnalysis : 1..MaxDocCount]

\* (variant) the growth has to exceed the threshold
GrowthExceedsThreshold(previousCount, currentCount) ==
  5 * (currentCount - previousCount) > previousCount

\* (currentCount - previousCount) / previousCount >= REFRESH_THRESHOLD,
\* with REFRESH_THRESHOLD = 0.2.  For counts of this size the quotient of
\* the doubles is at least the double 0.2 exactly when the quotient of the
\* integers is at least 1/5.
GrowthReachesThreshold(previousCount, currentCount) ==
  5 * (currentCount - previousCount) >= previousCount

\* loadThemes: the value of shouldRefresh after it, given the value before
loadThemes(shouldRefresh, existingAnalysis, currentCount) ==
  IF existingAnalysis # NoAnalysis /\ existingAnalysis.status = "completed"
    THEN IF /\ existingAnalysis.documentCountAtAnalysis > 0
            /\ currentCount > existingAnalysis.documentCountAtAnalysis
           THEN GrowthReachesThreshold(
                  existingAnalysis.documentCountAtAnalysis, currentCount)
           ELSE shouldRefresh
    ELSE IF existingAnalysis = NoAnalysis
      THEN IF currentCount > 0 THEN TRUE ELSE shouldRefresh
      ELSE shouldRefresh

\* useShouldAnalyzeThemes: the value of shouldAnalyze after check()
useShouldAnalyzeThemes(existingAnalysis, completedDocCount) ==
  IF completedDocCount = 0 THEN FALSE
  ELSE IF existingAnalysis = NoAnalysis THEN TRUE
  ELSE IF existingAnalysis.status # "completed" THEN FALSE
  ELSE IF /\ existingAnalysis.documentCountAtAnalysis > 0
          /\ completedDocCount > existingAnalysis.documentCountAtAnalysis
         THEN GrowthReachesThreshold(
                existingAnalysis.documentCountAtAnalysis, completedDocCount)
  ELSE FALSE

\* The hook is mounted for a case: useState(false), then loadThemes.
LoadThemesCall(existingAnalysis, currentCount) ==
  /\ call.pc = "idle"
  /\ call' = [fn |-> "loadThemes", pc |-> "called",
              existingAnalysis |-> existingAnalysis,
              currentCount |-> currentCount]
  /\ UNCHANGED appState

LoadThemesReturn ==
  /\ call.pc = "called"
  /\ call.fn = "loadThemes"
  /\ call' = [fn |-> call.fn, pc |-> "returned",
              existingAnalysis |-> call.existingAnalysis,
              currentCount |-> call.currentCount,
              result |-> loadThemes(FALSE, call.existingAnalysis,
                                    call.currentCount)]
  /\ UNCHANGED appState

ShouldAnalyzeCall(existingAnalysis, completedDocCount) ==
  /\ call.pc = "idle"
  /\ call' = [fn |-> "useShouldAnalyzeThemes", pc |-> "called",
              existingAnalysis |-> existingAnalysis,
              currentCount |-> completedDocCount]
  /\ UNCHANGED appState

ShouldAnalyzeReturn ==
  /\ call.pc = "called"
  /\ call.fn = "useShouldAnalyzeThemes"
  /\ call' = [fn |-> call.fn, pc |-> "returned",
              existingAnalysis |-> call.existingAnalysis,
              currentCount |-> call.currentCount,
              result |-> useShouldAnalyzeThemes(call.existingAnalysis,
                                                call.currentCount)]
  /\ UNCHANGED appState

NextRefresh ==
  \/ \E a \in ExistingAnalyses, n \in 0..MaxDocCount : LoadThemesCall(a, n)
  \/ LoadThemesReturn
  \/ \E a \in ExistingAnalyses, n \in 0..MaxDocCount : ShouldAnalyzeCall(a, n)
  \/ ShouldAnalyzeReturn

SpecRefresh == Init /\ [][NextRefresh]_vars

\* ---------------------------------------------------------------------
\* parseThemeResponse
\* ---------------------------------------------------------------------
\* relevance scores are counted in tenths: 8 is 0.8
MaxScore == 12

MaxPriority == 7

ScoreInputs == (0 - 2)..MaxScore

PriorityInputs == (0 - 1)..MaxPriority

\* the elements of "themes" in the reply
LLMTheme ==
  { [title |-> "Fraud", relevanceScore |-> r] : r \in ScoreInputs }
    \cup { [title |-> "Fraud"], [relevanceScore |-> 5] }

\* the elements of "suggestedQuestions" in the reply
LLMQuestion ==
  { [question |-> "q1", themeTitle |-> "fraud", priority |-> n] :
      n \in PriorityInputs }
    \cup { [question |-> "q1"] }

\* What the text of a reply stands for: no JSON at all, a JSON value that
\* is not an object, an object whose "themes" is a string, or an object.
ReplyValues ==
  { [type |-> "unparsable"], [type |-> "null"], [type |-> "number"],
    [type |-> "themesNotAList"],
    [type |-> "object", fields |-> [other |-> 1]] }
    \cup { [type |-> "object",
            fields |-> [themes |-> ts, suggestedQuestions |-> qs]] :
             ts \in SeqsUpTo(LLMTheme, 1), qs \in SeqsUpTo(LLMQuestion, 1) }

\* How the value is written: alone, in a ```json block, in a ``` block, or
\* with prose around it.
ReplyForms == {"bare", "fencedJson", "fenced", "prose"}

Replies == [form : ReplyForms, value : ReplyValues]

Thrown == [type |-> "thrown"]

\* The three patterns and JSON.parse: a fenced block gives its body, an
\* object its text from the first to the last brace; without a match the
\* whole content is parsed, which fails when prose surrounds the value.
JSONparse(content) ==
  IF content.value.type = "unparsable" THEN Thrown
  ELSE IF /\ content.form = "prose"
          /\ content.value.type \in {"null", "number"} THEN Thrown
  ELSE content.value

Clamp(lo, hi, x) == Min(hi, IF x > lo THEN x ELSE lo)

\* value || default for a number or a missing field
OrDefault(fields, key, default) ==
  IF key \in DOMAIN fields /\ fields[key] # 0 THEN fields[key] ELSE default

ParsedTheme(t, caseId) ==
  [caseId |-> caseId,
   title |-> IF "title" \in DOMAIN t THEN t.title ELSE "Untitled Theme",
   relevanceScore |-> Clamp(0, 10, OrDefault(t, "relevanceScore", 8))]

ParsedQuestion(q, caseId) ==
  LET row == [caseId |-> caseId, question |-> q.question, themeId |-> <<>>,
              priority |-> Clamp(1, 5, OrDefault(q, "priority", 3))]
  IN  IF "themeTitle" \in DOMAIN q
        THEN [_themeTitle |-> q.themeTitle] @@ row ELSE row

EmptyResult == [themes |-> <<>>, suggestedQuestions |-> <<>>, raised |-> FALSE]

\* the body of the try block: the result, or Thrown
TryParse(content, caseId) ==
  LET parsed == JSONparse(content)
  IN  IF parsed = Thrown THEN Thrown
      ELSE IF parsed.type \in {"null", "themesNotAList"} THEN Thrown
      ELSE IF parsed.type = "number" THEN EmptyResult
      ELSE LET f == parsed.fields
           IN       [themes |->
                       IF "themes" \in DOMAIN f
                         THEN [k \in DOMAIN f.themes |->
                                 ParsedTheme(f.themes[k], caseId)]
                         ELSE <<>>,
                     suggestedQuestions |->
                       IF "suggestedQuestions" \in DOMAIN f
                         THEN [k \in DOMAIN f.suggestedQuestions |->
                                 ParsedQuestion(f.suggestedQuestions[k], caseId)]
                         ELSE <<>>,
                     raised |-> FALSE]

\* (variant) without the catch
parseThemeResponseNoCatch(content, caseId) ==
  LET r == TryParse(content, caseId)
  IN  IF r = Thrown
        THEN [themes |-> <<>>, suggestedQuestions |-> <<>>, raised |-> TRUE]
        ELSE r

\* try { ... } catch { return { themes: [], suggestedQuestions: [] } }
parseThemeResponse(content, caseId) ==
  LET r == TryParse(content, caseId)
  IN  IF r = Thrown THEN EmptyResult ELSE r

ParseCall(content) ==
  /\ call.pc = "idle"
  /\ call' = [fn |-> "parseThemeResponse", pc |-> "called", content |-> content]
  /\ UNCHANGED appState

ParseReturn ==
  /\ call.pc = "called"
  /\ call.fn = "parseThemeResponse"
  /\ call' = [fn |-> call.fn, pc |-> "returned", content |-> call.content,
              result |-> parseThemeResponse(call.content, 1)]
  /\ UNCHANGED appState

NextParse ==
  \/ \E content \in Replies : ParseCall(content)
  \/ ParseReturn

SpecParse == Init /\ [][NextParse]_vars

\* ---------------------------------------------------------------------
\* sampleChunks
\* ---------------------------------------------------------------------
SAMPLE_CHUNKS_FOR_ANALYSIS == 50

MaxSampleDocs == 3

\* how many chunks a document of the case may have
DocSizes == {1, 2, 17, 30}

\* the chunks of a case whose k-th document has sizes[k] chunks, in the
\* order of the documents
CaseChunks(sizes) ==
  LET total(k) == LET Sum[j \in 0..Len(sizes)] ==
                        IF j = 0 THEN 0 ELSE Sum[j - 1] + sizes[j]
                  IN  Sum[k]
  IN  [n \in 1..total(Len(sizes)) |->
         LET d == CHOOSE k \in 1..Len(sizes) :
                    total(k - 1) < n /\ n <= total(k)
         IN  [documentId |-> d, chunkIndex |-> n - total(d - 1) - 1]]

\* The cases sampled: up to MaxSampleDocs documents of the sizes above,
\* and one case with more documents than the limit, one chunk each.
SampleInputs ==
  { CaseChunks(sizes) : sizes \in SeqsUpTo(DocSizes, MaxSampleDocs) \ { <<>> } }
    \cup { CaseChunks([k \in 1..(SAMPLE_CHUNKS_FOR_ANALYSIS + 1) |-> 1]) }

DocumentsOf(chunkSeq) == { chunkSeq[n].documentId : n \in DOMAIN chunkSeq }

\* docChunks of document d: its chunks in the order of the input
DocChunksOf(chunkSeq, d) ==
  SelectSeq(chunkSeq, LAMBDA c : c.documentId = d)

\* Array.from(byDocument.entries()): the documents in the order of their
\* first chunk, each with its chunks
GroupByDocument(chunkSeq) ==
  LET first(d) == SetMin({ n \in DOMAIN chunkSeq : chunkSeq[n].documentId = d })
      rank(d) == Cardinality({ e \in DocumentsOf(chunkSeq) : first(e) <= first(d) })
  IN  [r \in 1..Cardinality(DocumentsOf(chunkSeq)) |->
         DocChunksOf(chunkSeq, CHOOSE d \in DocumentsOf(chunkSeq) : rank(d) = r)]

\* what the body of the for loop adds for one document
SampleDocument(docChunks, sampled, limit, chunksPerDoc) ==
  LET withFirst == IF Len(docChunks) > 0
                     THEN Append(sampled, docChunks[1]) ELSE sampled
      middleChunks == SubSeq(docChunks, 2, Len(docChunks))
      step == Max(1, Len(middleChunks) \div (chunksPerDoc - 1))
      visited == (Len(middleChunks) + step - 1) \div step
      pushed == Min(visited, limit - Len(withFirst))
  IN  IF Len(docChunks) > 1 /\ chunksPerDoc > 1
        THEN withFirst \o [j \in 1..pushed |-> middleChunks[(j - 1) * step + 1]]
        ELSE withFirst

RECURSIVE SampleLoop(_, _, _, _, _)
\* the for loop from the k-th document on, with its break
SampleLoop(docsArray, k, sampled, limit, chunksPerDoc) ==
  IF k > Len(docsArray) THEN sampled
  ELSE LET next == SampleDocument(docsArray[k], sampled, limit, chunksPerDoc)
       IN  IF Len(next) >= limit THEN next
           ELSE SampleLoop(docsArray, k + 1, next, limit, chunksPerDoc)

sampleChunks(chunkSeq, limit) ==
  IF Len(chunkSeq) <= limit THEN chunkSeq
  ELSE LET docsArray == GroupByDocument(chunkSeq)
           chunksPerDoc == Max(1, limit \div Len(docsArray))
           sampled == SampleLoop(docsArray, 1, <<>>, limit, chunksPerDoc)
       IN  SubSeq(sampled, 1, Min(limit, Len(sampled)))

SampleCall(chunkSeq) ==
  /\ call.pc = "idle"
  /\ call' = [fn |-> "sampleChunks", pc |-> "called", chunks |-> chunkSeq]
  /\ UNCHANGED appState

SampleReturn ==
  /\ call.pc = "called"
  /\ call.fn = "sampleChunks"
  /\ call' = [fn |-> call.fn, pc |-> "returned", chunks |-> call.chunks,
              result |-> sampleChunks(call.chunks, SAMPLE_CHUNKS_FOR_ANALYSIS)]
  /\ UNCHANGED appState

NextSample ==
  \/ \E chunkSeq \in SampleInputs : SampleCall(chunkSeq)
  \/ SampleReturn

SpecSample == Init /\ [][NextSample]_vars

\* ---------------------------------------------------------------------
\* Properties of the pipeline
\* ---------------------------------------------------------------------
ActiveStatuses == {"pending", "ocr", "chunking", "embedding"}

StatusStep(s, t) ==
  \/ s = t
  \/ <<s, t>> \in { <<"pending", "ocr">>, <<"ocr", "chunking">>,
                    <<"chunking", "embedding">>, <<"embedding", "completed">> }
  \/ s \in ActiveStatuses /\ t = "error"

EmbeddingsOf(d) == { e \in embeddings : e.documentId = d }

ChunksOf(d) == { c \in chunks : c.documentId = d }

JobsOf(d) == { j \in DOMAIN processingJobs : processingJobs[j].documentId = d }

\* C1: the persisted status of a document only moves along
\* pending -> ocr -> chunking -> embedding -> completed, or from an active
\* stage to error; it never moves backward, never from completed to error,
\* and never leaves error.
C1_StatusOnlyForward ==
  [][\A d \in (DOMAIN documents) \cap (DOMAIN documents') :
       StatusStep(documents[d].status, documents'[d].status)]_vars

C1_Witness ==
  \E d \in DOMAIN documents :
    /\ documents[d].status = "error"
    /\ run[d].pc = "raised"
    /\ run[d].error = Err("Embedding generation failed")

C3_NoJobLeftProcessing ==
  \A d \in DOMAIN run :
    run[d].pc = "raised" =>
      \A j \in JobsOf(d) : processingJobs[j].status # "processing"

ExpectedEmbedding(d, k, chunk) ==
  [id |-> <<d, k>>, chunkId |-> chunk.id, documentId |-> chunk.documentId,
   caseId |-> chunk.caseId, embedding |-> <<"vec", chunk.content>>,
   model |-> "voyage-law-2"]

EmbeddingStageDone(d) ==
  /\ run[d].pc \in {"completeEmbeddingJob", "setCompleted", "done"}
  /\ d \in DOMAIN documents

\* C6: after a successful embedding stage over the chunks c0..cn exactly
\* one embedding per chunk is persisted, and the i-th row written carries
\* the id, documentId and caseId of ci and the vector returned for ci.
C6_OneEmbeddingPerChunkInOrder ==
  \A d \in DOMAIN run :
    EmbeddingStageDone(d) =>
      /\ Cardinality(EmbeddingsOf(d)) = Len(run[d].chunks)
      /\ \A k \in 1..Len(run[d].chunks) :
           ExpectedEmbedding(d, k, run[d].chunks[k]) \in embeddings

C6_Witness ==
  \E d \in DOMAIN run :
    /\ EmbeddingStageDone(d)
    /\ Len(run[d].chunks) > PARALLEL_EMBEDDING_REQUESTS * EMBEDDING_BATCH_SIZE
    /\ Cardinality(EmbeddingsOf(d)) = Len(run[d].chunks)

\* C7: once a batch failed or the gate denied a request, no embedding of
\* the document is persisted and the run sends no further request.
C7_FailureStoresNothing ==
  /\ [](\A d \in DOMAIN run :
          (run[d].failed # {} \/ run[d].denied) => EmbeddingsOf(d) = {})
  /\ [][\A d \in DOMAIN run :
          (run[d].failed # {} \/ run[d].denied) =>
            run'[d].sent = run[d].sent]_vars

C7_Witness ==
  \E d \in DOMAIN documents :
    /\ run[d].pc = "raised"
    /\ run[d].failed # {}
    /\ run[d].allResults # <<>>
    /\ EmbeddingsOf(d) = {}

\* C8: at most PARALLEL_EMBEDDING_REQUESTS requests of a run are in
\* flight, they belong to one group, and no request of a later group has
\* been sent while one of them is unresolved.
GroupOf(b) == (b - 1) \div PARALLEL_EMBEDDING_REQUESTS

C8_BoundedInFlight ==
  \A d \in DOMAIN run :
    /\ Cardinality(run[d].inflight) <= PARALLEL_EMBEDDING_REQUESTS
    /\ \A b \in run[d].inflight :
         \A s \in run[d].sent : GroupOf(s) <= GroupOf(b)

C8_Witness ==
  \E d \in DOMAIN run :
    /\ Cardinality(run[d].inflight) = PARALLEL_EMBEDDING_REQUESTS
    /\ run[d].pc = "awaitGroup"

\* Every persisted chunk of the document has exactly one embedding.
EveryChunkEmbedded(d) ==
  \A c \in ChunksOf(d) :
    Cardinality({ e \in EmbeddingsOf(d) : e.chunkId = c.id }) = 1

\* C9 (as stated): a document in status pending, ocr, chunking or error
\* has no persisted embeddings, and every chunk of a document in status
\* embedding or completed has one.
C9_EmbeddingsIffStageReached ==
  \A d \in DOMAIN documents :
    /\ documents[d].status \in {"pending", "ocr", "chunking", "error"} =>
         EmbeddingsOf(d) = {}
    /\ documents[d].status \in {"embedding", "completed"} =>
         EveryChunkEmbedded(d)

\* C9 (amended): a document in status pending, ocr or chunking has no
\* persisted embeddings; every chunk of a completed document has exactly
\* one; a document in status embedding or error has either none or
\* exactly one for every chunk.
C9_EmbeddingsAllOrNothing ==
  \A d \in DOMAIN documents :
    /\ documents[d].status \in {"pending", "ocr", "chunking"} =>
         EmbeddingsOf(d) = {}
    /\ documents[d].status = "completed" => EveryChunkEmbedded(d)
    /\ documents[d].status \in {"embedding", "error"} =>
         (EmbeddingsOf(d) = {} \/ EveryChunkEmbedded(d))
    /\ \A e \in EmbeddingsOf(d) : \E c \in ChunksOf(d) : e.chunkId = c.id

C9_Witness ==
  \E d \in DOMAIN documents :
    /\ documents[d].status = "completed"
    /\ Cardinality(ChunksOf(d)) = MaxChunks
    /\ EveryChunkEmbedded(d)

\* C5 (as stated): every metered remote request - OCR submission,
\* document embedding, query embedding, theme extraction - is preceded by
\* a usage-gate check and is sent only when the gate allows.
C5_EveryMeteredCallGated ==
  \A r \in requests : r.checked /\ r.gate

\* Nothing of document d is left in the store.
DocGone(d) ==
  /\ d \notin DOMAIN documents
  /\ ChunksOf(d) = {}
  /\ EmbeddingsOf(d) = {}
  /\ JobsOf(d) = {}

\* Nothing of case c is left in the store.
CaseGone(c) ==
  /\ c \notin cases
  /\ \A d \in DOMAIN documents : documents[d].caseId # c
  /\ \A k \in chunks : k.caseId # c
  /\ \A e \in embeddings : e.caseId # c
  /\ \A j \in DOMAIN processingJobs : processingJobs[j].caseId # c
  /\ \A h \in searchHistory : h.caseId # c
  /\ \A t \in caseThemes : t.caseId # c
  /\ \A q \in suggestedQuestions : q.caseId # c
  /\ \A a \in themeAnalysis : a.caseId # c

\* C10: the step that removes a document removes its chunks, embeddings
\* and processing jobs with it, and the step that removes a case removes
\* every document, chunk, embedding, job, search-history row, theme,
\* question and analysis record of the case with it.
C10_DeletesCascadeAtomically ==
  [][/\ \A d \in DOMAIN run :
          (deleteDocument(d) \/ (d \in DOMAIN documents /\ d \notin DOMAIN documents'))
            => DocGone(d)'
     /\ \A c \in CaseIds :
          (deleteCase(c) \/ (c \in cases /\ c \notin cases')) => CaseGone(c)']_vars

C10_Witness ==
  /\ \E c \in CaseIds : c \notin cases /\ CaseGone(c)
  /\ \E d \in DOMAIN run :
       DocGone(d) /\ run[d].caseId \in cases /\ caseThemes # {}
  /\ analysis.n > 0
  /\ search.n > 0

\* C11 (as stated): every persisted chunk, embedding and processing job
\* belongs to a document that is still persisted, also when a delete ran
\* while processDocument was running for the document.
C11_NoOrphanRecords ==
  /\ \A k \in chunks : k.documentId \in DOMAIN documents
  /\ \A e \in embeddings : e.documentId \in DOMAIN documents
  /\ \A j \in DOMAIN processingJobs :
       processingJobs[j].documentId \in DOMAIN documents

\* ---------------------------------------------------------------------
\* Properties of the processing jobs
\* ---------------------------------------------------------------------
JobStatusStep(s, t) ==
  \/ s = t
  \/ <<s, t>> \in { <<"queued", "processing">>, <<"processing", "completed">>,
                    <<"processing", "failed">> }

JobTypes == << "ocr", "chunking", "embedding" >>

\* The jobs of document d are one completed job of each of the first n types.
CompletedJobs(d, n) ==
  /\ JobsOf(d) = { <<d, JobTypes[k]>> : k \in 1..n }
  /\ \A j \in JobsOf(d) : processingJobs[j].status = "completed"

\* The step in which the run of d returns without an error.
RunSucceeds(d) == run[d].pc # "done" /\ run'[d].pc = "done"

\* The step in which the job of the k-th stage of d is created.
JobCreated(d, k) ==
  /\ <<d, JobTypes[k]>> \notin DOMAIN processingJobs
  /\ <<d, JobTypes[k]>> \in DOMAIN processingJobs'

Unchanging ==
  /\ poll.polls > 0
  /\ poll.constant
  /\ poll.first.ok
  /\ poll.first.status \in {"queued", "processing"}

StuckError == "OCR job appears stuck"

TimeoutError == "OCR timed out"

\* C13 (as stated): a service that answers every poll (2 s apart) with the
\* same non-terminal report, whatever its values, makes the loop end with
\* the stuck-job error once 30 polls in a row brought nothing new.
C13_StuckAfter30UnchangedPolls ==
  (Unchanging /\ poll.latency = 0) =>
    /\ poll.polls <= MAX_STUCK_POLLS + 1
    /\ poll.polls = MAX_STUCK_POLLS + 1 =>
         (poll.outcome = StuckError /\ poll.elapsed < OCR_MAX_WAIT)

\* C13 (amended): if the unchanging report shows no chunk in processing,
\* the loop ends with the stuck-job error at poll 31 (the first poll
\* counts as progress), provided 31 polls fit into the 5 minutes, and
\* with the timeout error otherwise; if the report shows chunks in
\* processing the loop never counts a stuck poll and ends only with the
\* timeout error.
C13_StuckUnlessChunksProcessing ==
  Unchanging =>
    IF poll.first.chunksProcessing > 0
      THEN /\ poll.stuckCount = 0
           /\ poll.pc = "done" => poll.outcome = TimeoutError
    ELSE IF MAX_STUCK_POLLS * (OCR_POLL_INTERVAL + poll.latency) < OCR_MAX_WAIT
      THEN /\ poll.stuckCount = poll.polls - 1
           /\ poll.polls <= MAX_STUCK_POLLS + 1
           /\ poll.pc = "done" =>
                /\ poll.outcome = StuckError
                /\ poll.polls = MAX_STUCK_POLLS + 1
           /\ poll.polls = MAX_STUCK_POLLS + 1 => poll.pc = "done"
      ELSE poll.pc = "done" => poll.outcome = TimeoutError

C13_Witness ==
  /\ Unchanging
  /\ poll.first.chunksProcessing = 0
  /\ poll.outcome = StuckError
  /\ poll.polls = MAX_STUCK_POLLS + 1
  /\ poll.elapsed = (MAX_STUCK_POLLS + 1) * OCR_POLL_INTERVAL

\* The outcome the body of an iteration may produce for an answer.
PollOutcomes(resp) ==
  IF ~resp.ok THEN {"Failed to check OCR status"}
  ELSE IF resp.status = "completed" THEN {"text"}
  ELSE IF resp.status = "failed" THEN {"OCR processing failed"}
  ELSE {"none", StuckError}

Dispatched == dispatch.pc \notin {"idle", "switch"}

\* C15 (as stated): plain-text extraction if the MIME type is text/plain
\* or the extension is txt; otherwise office-document extraction if the
\* MIME type is the DOCX type or the extension is docx; otherwise OCR.
C15_RoutesTypeOrExtension ==
  Dispatched =>
    dispatch.pc =
      IF dispatch.file.type = "text/plain" \/ dispatch.file.ext = "txt"
        THEN "extractTextFromPlainText"
      ELSE IF dispatch.file.type = DOCX_MIME \/ dispatch.file.ext = "docx"
        THEN "extractTextFromDocx"
      ELSE "extractTextViaOCR"

\* the MIME types the dispatcher knows
KnownTypes == {"text/plain"} \cup DOCX_TYPES \cup OCR_REQUIRED_TYPES

\* C15 (amended): a known MIME type decides alone - text/plain goes to
\* plain-text extraction, the DOCX type to office-document extraction, a
\* PDF or image type to OCR; only for any other MIME type the extension
\* decides - txt to plain text, docx to office-document extraction;
\* everything else goes to OCR.
C15_RoutesTypeBeforeExtension ==
  Dispatched =>
    /\ dispatch.pc = "extractTextFromPlainText" <=>
         \/ dispatch.file.type = "text/plain"
         \/ dispatch.file.type \notin KnownTypes /\ dispatch.file.ext = "txt"
    /\ dispatch.pc = "extractTextFromDocx" <=>
         \/ dispatch.file.type = DOCX_MIME
         \/ dispatch.file.type \notin KnownTypes /\ dispatch.file.ext = "docx"
    /\ dispatch.pc \in { "extractTextFromPlainText", "extractTextFromDocx",
                         "extractTextViaOCR" }

C15_Witness ==
  /\ dispatch.pc = "extractTextViaOCR"
  /\ dispatch.file.type = "application/pdf"
  /\ dispatch.file.ext = "txt"

\* ---------------------------------------------------------------------
\* Properties of chunkText
\* ---------------------------------------------------------------------
\* the rows processDocument hands to createChunks
PersistedRows == ChunkRows(chunker.result)

\* C16: the chunk rows of a text satisfy
\* 0 <= startOffset < endOffset <= len(text), and their chunkIndex values
\* are 0..n-1 in document order without a gap, also when whitespace-only
\* chunks were dropped.
C16_OffsetsAndContiguousIndices ==
  chunker.pc = "done" =>
    /\ \A k \in 1..Len(PersistedRows) :
         /\ 0 <= PersistedRows[k].startOffset
         /\ PersistedRows[k].startOffset < PersistedRows[k].endOffset
         /\ PersistedRows[k].endOffset <= chunker.text.len
         /\ PersistedRows[k].chunkIndex = k - 1
    /\ \A k \in 1..(Len(PersistedRows) - 1) :
         PersistedRows[k].startOffset < PersistedRows[k + 1].startOffset

C16_Witness ==
  /\ chunker.pc = "done"
  /\ Len(PersistedRows) >= 2
  /\ Len(chunker.result) < Len(chunker.chunks)

\* the position in the loop's list of a chunk that was returned
LoopIndex(chunk) ==
  CHOOSE m \in 1..Len(chunker.chunks) :
    chunker.chunks[m].startOffset = chunk.startOffset

\* C17 (as stated): for adjacent returned chunks i, i+1 where chunk i+1
\* was not force-advanced, the start of chunk i+1 is the end of chunk i
\* minus CHUNK_OVERLAP.
C17_OverlapOfReturnedChunks ==
  chunker.pc = "done" =>
    \A k \in 1..(Len(chunker.result) - 1) :
      ~chunker.forced[LoopIndex(chunker.result[k + 1])] =>
        chunker.result[k + 1].startOffset =
          chunker.result[k].endOffset - CHUNK_OVERLAP

\* C17 (amended): for chunks i, i+1 that the loop produced one after the
\* other, the start of chunk i+1 is the (possibly sentence-snapped) end of
\* chunk i minus CHUNK_OVERLAP, or that end itself if chunk i+1 was
\* force-advanced; for adjacent returned chunks this holds when no
\* whitespace-only chunk was dropped between them.
C17_OverlapOfConsecutiveChunks ==
  /\ Len(chunker.forced) = Len(chunker.chunks)
  /\ \A k \in 1..(Len(chunker.chunks) - 1) :
       chunker.chunks[k + 1].startOffset =
         IF chunker.forced[k + 1]
           THEN chunker.chunks[k].endOffset
           ELSE chunker.chunks[k].endOffset - CHUNK_OVERLAP
  /\ chunker.pc = "done" =>
       \A k \in 1..(Len(chunker.result) - 1) :
         (/\ LoopIndex(chunker.result[k + 1]) = LoopIndex(chunker.result[k]) + 1
          /\ ~chunker.forced[LoopIndex(chunker.result[k + 1])]) =>
           chunker.result[k + 1].startOffset =
             chunker.result[k].endOffset - CHUNK_OVERLAP

C17_Witness ==
  /\ chunker.pc = "done"
  /\ chunker.text.kind = "spaced"
  /\ Len(chunker.result) >= 3
  /\ chunker.result[1].endOffset < CHUNK_SIZE
  /\ chunker.result[2].startOffset = chunker.result[1].endOffset - CHUNK_OVERLAP

\* the content has no white space at either end
Trimmed(text, content) ==
  ContentLength(content) > 0 =>
    /\ ~IsSpace(CharAt(text, content.from))
    /\ ~IsSpace(CharAt(text, content.to - 1))

\* C18 (as stated): a 2500-character text of short period-terminated
\* sentences yields exactly 3 chunks with indices 0, 1, 2, each trimmed
\* and none empty, and the chunk that reaches the end of the text is the
\* last one.
C18_ThreeChunksFor2500Chars ==
  (/\ chunker.pc = "done"
   /\ chunker.text.kind \in {"sentences", "spaced"}
   /\ chunker.text.len = 2500) =>
    /\ Len(PersistedRows) = 3
    /\ \A k \in 1..Len(PersistedRows) :
         /\ PersistedRows[k].chunkIndex = k - 1
         /\ ContentLength(PersistedRows[k].content) > 0
         /\ Trimmed(chunker.text, PersistedRows[k].content)
         /\ PersistedRows[k].endOffset = chunker.text.len =>
              k = Len(PersistedRows)

\* C19: chunkText terminates for every text, and the window start
\* strictly increases on every iteration of the loop.
C19_ChunkTextTerminates ==
  /\ [][ChunkStep => chunker'.start > chunker.start]_vars
  /\ <>(chunker.pc = "done")

C19_Witness ==
  /\ chunker.pc = "done"
  /\ chunker.text.len > 0
  /\ chunker.text.len < CHUNK_OVERLAP
  /\ chunker.text.kind = "letters"
  /\ Len(chunker.result) = 1

\* ---------------------------------------------------------------------
\* Properties of the theme analysis
\* ---------------------------------------------------------------------
\* the questions of case c whose themeId is not the id of a persisted
\* theme of the case
DanglingQuestions(c) ==
  { q \in suggestedQuestions :
      /\ q.caseId = c
      /\ ~\E t \in caseThemes : t.caseId = c /\ t.id = q.themeId }

\* C20: when triggerAnalysis completes successfully, every persisted
\* SuggestedQuestion of the case has the themeId of a currently persisted
\* CaseTheme of the same case.
C20_QuestionsLinkedToPersistedThemes ==
  [][\A c \in CaseIds :
       (MarkCompleted /\ analysis.caseId = c) => DanglingQuestions(c)' = {}]_vars

\* getThemesByCase, getSuggestedQuestionsByCase
ThemesOf(c) == { t \in caseThemes : t.caseId = c }

QuestionsOf(c) == { q \in suggestedQuestions : q.caseId = c }

\* the step is a call of saveThemesAndQuestions for case c
SavesFor(c) == (SaveThemes \/ SaveQuestions) /\ analysis.caseId = c

\* C21: saveThemesAndQuestions(caseId, T, Q) replaces wholesale: in one
\* step the themes and questions of the case become exactly the new T and
\* Q, no earlier row of the case survives, and the rows of every other
\* case are unchanged.
C21_SaveReplacesWholesale ==
  [][\A c \in CaseIds :
       SavesFor(c) =>
         /\ ThemesOf(c)' \cap ThemesOf(c) = {}
         /\ QuestionsOf(c)' \cap QuestionsOf(c) = {}
         /\ Cardinality(ThemesOf(c)') = Len(analysis.result.themes)
         /\ { t.title : t \in ThemesOf(c)' } =
              { analysis.result.themes[k].title :
                  k \in DOMAIN analysis.result.themes }
         /\ { q.question : q \in QuestionsOf(c)' } =
              IF analysis.pc = "saveThemes" THEN {}
              ELSE { analysis.result.suggestedQuestions[k].question :
                       k \in DOMAIN analysis.result.suggestedQuestions }
         /\ Cardinality(QuestionsOf(c)') =
              IF analysis.pc = "saveThemes" THEN 0
              ELSE Len(analysis.result.suggestedQuestions)
         /\ \A o \in CaseIds \ {c} :
              /\ ThemesOf(o)' = ThemesOf(o)
              /\ QuestionsOf(o)' = QuestionsOf(o)]_vars

C21_Witness ==
  /\ analysis.pc = "markCompleted"
  /\ analysis.n = 2
  /\ QuestionsOf(analysis.caseId) # {}
  /\ \E o \in CaseIds \ {analysis.caseId} : QuestionsOf(o) # {}

\* ---------------------------------------------------------------------
\* Properties of linkQuestionsToThemes
\* ---------------------------------------------------------------------
LinkReturned == call.fn = "linkQuestionsToThemes" /\ call.pc = "returned"

\* the saved themes whose title is the theme title of q, ignoring case
TitleMatches(savedThemes, q) ==
  { m \in DOMAIN savedThemes :
      /\ "_themeTitle" \in DOMAIN q
      /\ toLowerCase(savedThemes[m].title) = toLowerCase(q._themeTitle) }

\* C22: each question gets the id of the first saved theme whose title
\* equals its theme title ignoring case; without such a theme (or without
\* a theme title) the id of the first saved theme; without saved themes an
\* empty themeId; and no returned question has the temporary key.
C22_QuestionsLinkedByTitle ==
  LinkReturned =>
    /\ Len(call.result) = Len(call.questions)
    /\ \A k \in DOMAIN call.questions :
         LET hits == TitleMatches(call.savedThemes, call.questions[k])
         IN  /\ "_themeTitle" \notin DOMAIN call.result[k]
             /\ call.result[k].question = call.questions[k].question
             /\ hits # {} =>
                  \E m \in hits :
                    /\ \A o \in hits : m <= o
                    /\ call.result[k].themeId = call.savedThemes[m].id
             /\ (hits = {} /\ call.savedThemes # <<>>) =>
                  call.result[k].themeId = call.savedThemes[1].id
             /\ call.savedThemes = <<>> => call.result[k].themeId = <<>>

C22_Witness ==
  /\ LinkReturned
  /\ Len(call.savedThemes) = 2
  /\ call.savedThemes[1].title = "Breach"
  /\ call.savedThemes[2].title = "Fraud"
  /\ Len(call.questions) = 2
  /\ call.questions[1] = [question |-> "q", _themeTitle |-> "FRAUD"]
  /\ call.questions[2] = [question |-> "q"]
  /\ call.result[1].themeId = <<1, 2>>
  /\ call.result[2].themeId = <<1, 1>>

\* ---------------------------------------------------------------------
\* Properties of the refresh decision
\* ---------------------------------------------------------------------
RefreshReturned ==
  call.fn \in {"loadThemes", "useShouldAnalyzeThemes"} /\ call.pc = "returned"

C24_CountOnlyChangesOnSuccess ==
  [][\A a \in themeAnalysis : \A b \in themeAnalysis' :
       (a.id = b.id /\
        a.documentCountAtAnalysis # b.documentCountAtAnalysis) =>
         b.status = "completed"]_vars

NoThemesError == "Could not extract themes from documents"

ParseReturned == call.fn = "parseThemeResponse" /\ call.pc = "returned"

\* C26: when the reply cannot be parsed as JSON, neither bare nor inside a
\* fenced block, the result has no themes and no suggested questions and
\* nothing is raised.
C26_UnparsableReplyGivesEmptyResult ==
  (ParseReturned /\ JSONparse(call.content) = Thrown) =>
    /\ call.result.themes = <<>>
    /\ call.result.suggestedQuestions = <<>>
    /\ ~call.result.raised

C26_Witness ==
  /\ ParseReturned
  /\ call.content = [form |-> "fencedJson", value |-> [type |-> "unparsable"]]
  /\ call.result = EmptyResult

\* the themes and questions of a reply that is an object with both lists
ReplyLists ==
  IF /\ ParseReturned
     /\ call.content.value.type = "object"
     /\ "suggestedQuestions" \in DOMAIN call.content.value.fields
    THEN call.content.value.fields
    ELSE [themes |-> <<>>, suggestedQuestions |-> <<>>]

\* C27: for every numeric relevanceScore and priority of the reply,
\* including 0, negative and too large values, the parsed theme has the
\* relevanceScore clamped to [0,1] and the parsed question the priority
\* clamped to [1,5].
C27_ScoresAndPrioritiesClamped ==
  ParseReturned =>
    /\ \A k \in DOMAIN ReplyLists.themes :
         "relevanceScore" \in DOMAIN ReplyLists.themes[k] =>
           call.result.themes[k].relevanceScore =
             Clamp(0, 10, ReplyLists.themes[k].relevanceScore)
    /\ \A k \in DOMAIN ReplyLists.suggestedQuestions :
         "priority" \in DOMAIN ReplyLists.suggestedQuestions[k] =>
           call.result.suggestedQuestions[k].priority =
             Clamp(1, 5, ReplyLists.suggestedQuestions[k].priority)

\* ---------------------------------------------------------------------
\* Properties of sampleChunks
\* ---------------------------------------------------------------------
\* C28: for a case with more than 50 chunks sampleChunks returns at most
\* 50 chunks, among them the first chunk of every document of the case.
C28_SampleHasFirstChunkOfEveryDocument ==
  (/\ call.fn = "sampleChunks"
   /\ call.pc = "returned"
   /\ Len(call.chunks) > SAMPLE_CHUNKS_FOR_ANALYSIS) =>
    /\ Len(call.result) <= SAMPLE_CHUNKS_FOR_ANALYSIS
    /\ \A d \in DocumentsOf(call.chunks) :
         \E n \in DOMAIN call.result :
           call.result[n] = DocChunksOf(call.chunks, d)[1]

\* ---------------------------------------------------------------------
\* Properties of the search history
\* ---------------------------------------------------------------------
\* the step in which a search() call ends without an error
SearchSucceeds == search.pc = "saveHistory" /\ search'.pc = "idle"

\* the step in which a search() call ends early: blank query or failure
SearchEndsEarly ==
  \/ search.pc = "idle" /\ search'.pc = "idle" /\ search' # search
  \/ search.pc = "awaitEmbedding" /\ search'.pc = "idle"

\* C29: a search that is executed successfully adds exactly one
\* SearchHistory row for the case, with the literal query, the number of
\* matches returned and the snapshot of those matches; a blank query or a
\* failed search adds no row.
C29_OneHistoryRowPerSearch ==
  /\ [][SearchSucceeds =>
          \E h \in searchHistory' \ searchHistory :
            /\ searchHistory' = searchHistory \cup {h}
            /\ h.caseId = search.caseId
            /\ h.query = search.query
            /\ h.results = search.matches
            /\ h.resultCount = Cardinality(search.matches)]_vars
  /\ [][SearchEndsEarly => searchHistory' = searchHistory]_vars
  /\ [][searchHistory' \ searchHistory # {} => SearchSucceeds]_vars

C29_Witness ==
  /\ search.pc = "idle"
  /\ search.n = 1
  /\ \E h \in searchHistory :
       h.query = "contract breach" /\ h.resultCount >= 1 /\ h.results # {}

\* C30: replaying a stored search that has a snapshot, also one with zero
\* matches, shows the stored matches and sends no embedding request, runs
\* no similarity search and adds no SearchHistory row.
C30_ReplayWithoutRecomputation ==
  [][\A c \in CaseIds : \A h \in searchHistory :
       (LoadPreviousSearch(c, h.id) /\ "results" \in DOMAIN h) =>
         /\ requests' = requests
         /\ searchHistory' = searchHistory
         /\ search'.pc = "idle"
         /\ search'.results = h.query
         /\ search'.matches = h.results]_vars

\* ---------------------------------------------------------------------
\* Properties of the stuck counter
\* ---------------------------------------------------------------------
\* The answer differs from the answer of the poll before it in the status
\* or in one of the two chunk counters.
DiffersFromPrevious(p, resp) ==
  /\ p.polls > 0
  /\ Reports(resp)
  /\ \/ resp.status # p.prev.status
     \/ resp.chunksCompleted # p.prev.chunksCompleted
     \/ resp.chunksProcessing # p.prev.chunksProcessing

PollOutcomeSet ==
  {"none", "text", "OCR processing failed", "Failed to check OCR status",
   StuckError, TimeoutError}

\* C31 (as stated): every poll whose answer differs from the answer of
\* the previous poll in the status or in a progress indicator
\* (chunksCompleted, chunksProcessing) and that does not end the loop
\* leaves the stuck counter at 0.
C31_AnyChangeResetsCounter ==
  [][\A resp \in StatusResponses :
       (/\ Poll(resp)
        /\ poll'.pc = "polling"
        /\ DiffersFromPrevious(poll, resp))
       => poll'.stuckCount = 0]_vars

\* C31 (amended): the stuck counter is the number of polls in a row whose
\* answer neither brought another status or another chunksCompleted than
\* the poll before nor reported chunks in processing; every other poll
\* resets it to 0.  The stuck-job error is raised only when that number
\* reaches 30, so a job that moves in this sense at least once in every
\* 30 polls ends by completed, failed, the status-check error or the
\* timeout.
C31_CounterCountsPollsWithoutProgress ==
  /\ poll.outcome \in PollOutcomeSet
  /\ poll.outcome \in {"none", StuckError} => poll.stuckCount = poll.quiet
  /\ poll.quiet <= MAX_STUCK_POLLS
  /\ poll.outcome = StuckError <=> poll.stuckCount = MAX_STUCK_POLLS

\* the loop ran into the timeout after 150 polls although the last 29
\* of them brought nothing new: the counter had been reset in between
C31_Witness ==
  /\ poll.outcome = TimeoutError
  /\ poll.latency = 0
  /\ poll.polls = OCR_MAX_WAIT \div OCR_POLL_INTERVAL
  /\ poll.stuckCount = MAX_STUCK_POLLS - 1
  /\ poll.quiet = MAX_STUCK_POLLS - 1
  /\ ~poll.constant

\* ---------------------------------------------------------------------
\* Properties of the chunk bounds
\* ---------------------------------------------------------------------
\* The end of the chunk is not the raw end of its window.
Snapped(text, chunk) ==
  chunk.endOffset # Min(chunk.startOffset + CHUNK_SIZE, text.len)

\* C32: every chunk of chunkText spans at most CHUNK_SIZE characters of
\* the text, and a chunk whose end was moved to a sentence break spans
\* more than CHUNK_SIZE / 2 characters.
C32_ChunkSpanBounded ==
  \A k \in 1..Len(chunker.chunks) :
    LET chunk == chunker.chunks[k]
    IN  /\ chunk.endOffset - chunk.startOffset <= CHUNK_SIZE
        /\ Snapped(chunker.text, chunk) =>
              2 * (chunk.endOffset - chunk.startOffset) > CHUNK_SIZE

\* ---------------------------------------------------------------------
\* Properties of the embedding progress
\* ---------------------------------------------------------------------
\* batches completed after the k-th group of a run with the given total
CompletedAfterGroup(k, totalBatches) ==
  Min(k * PARALLEL_EMBEDDING_REQUESTS, totalBatches)

NumGroups(totalBatches) ==
  (totalBatches + PARALLEL_EMBEDDING_REQUESTS - 1) \div PARALLEL_EMBEDDING_REQUESTS

\* C33: the progress reported by the embedding stage never decreases;
\* the report after the k-th group is round(completed batches / total
\* batches * 80) and at most 80; 100 is reported only in the step in
\* which the one bulk write of all embeddings succeeded, or at once,
\* without any request, when there are no chunks.
C33_EmbeddingProgressMonotone ==
  /\ [](\A d \in DOMAIN run :
         LET reported == run[d].progress
             total == NumBatches(run[d].chunks)
         IN  /\ \A k \in 1..(Len(reported) - 1) : reported[k] <= reported[k + 1]
             /\ \A k \in 1..Len(reported) :
                   \/ /\ k <= NumGroups(total)
                      /\ reported[k] <= 80
                      /\ 2 * reported[k] * total - total
                           <= 160 * CompletedAfterGroup(k, total)
                      /\ 160 * CompletedAfterGroup(k, total)
                           < 2 * reported[k] * total + total
                   \/ /\ k = NumGroups(total) + 1
                      /\ k = Len(reported)
                      /\ reported[k] = 100)
  /\ [][\A d \in DOMAIN run :
         run'[d].progress # run[d].progress =>
           /\ Len(run'[d].progress) = Len(run[d].progress) + 1
           /\ LET new == run'[d].progress[Len(run'[d].progress)]
              IN  IF new = 100
                    THEN \/ /\ Pc(d, "embed")
                            /\ run[d].chunks = <<>>
                            /\ run[d].sent = {}
                            /\ requests' = requests
                         \/ /\ Pc(d, "store")
                            /\ Len(run[d].allResults) = NumBatches(run[d].chunks)
                            /\ embeddings' = embeddings \cup
                                 NewEmbeddings(d, AllEmbeddingsToStore(run[d].allResults))
                            /\ Cardinality(NewEmbeddings(d,
                                 AllEmbeddingsToStore(run[d].allResults)))
                                 = Len(run[d].chunks)
                    ELSE /\ Pc(d, "awaitGroup")
                         /\ embeddings' = embeddings]_vars

\* two groups were reported (60, 80) and then the bulk write (100)
C33_Witness ==
  \E d \in DOMAIN run :
    /\ run[d].progress = << 60, 80, 100 >>
    /\ NumBatches(run[d].chunks) = PARALLEL_EMBEDDING_REQUESTS + 1
    /\ Cardinality(EmbeddingsOf(d)) = Len(run[d].chunks)

\* ---------------------------------------------------------------------
\* Properties of the per-document quota
\* ---------------------------------------------------------------------
\* the chunks of document d in a sample
SampledOf(sample, d) == SelectSeq(sample, LAMBDA c : c.documentId = d)

\* C34: when sampleChunks samples (more than 50 chunks given), no
\* document contributes more chunks to the sample than the per-document
\* quota max(1, floor(50 / number of documents)).
C34_NoDocumentExceedsQuota ==
  (/\ call.fn = "sampleChunks"
   /\ call.pc = "returned"
   /\ Len(call.chunks) > SAMPLE_CHUNKS_FOR_ANALYSIS) =>
    \A d \in DocumentsOf(call.chunks) :
      Len(SampledOf(call.result, d))
        <= Max(1, SAMPLE_CHUNKS_FOR_ANALYSIS
                    \div Cardinality(DocumentsOf(call.chunks)))

\* ---------------------------------------------------------------------
\* Properties of uploadFiles
\* ---------------------------------------------------------------------
RunActive(d) == run[d].pc \notin {"idle", "done", "raised"}

\* The runs go one after the other, each for its own file and its own
\* document record, and a call that ended left nothing in
\* activeProcessingRef.
UploadInTurn ==
  /\ \A d \in DOMAIN run :
        /\ RunActive(d) =>
              /\ upload.pc = "processDocument"
              /\ d = upload.k
              /\ \A e \in DOMAIN run : e # d => ~RunActive(e)
        /\ run[d].pc # "idle" =>
              /\ d \in Range(upload.started)
              /\ d \in DOMAIN documents
              /\ documents[d].caseId = upload.caseId
              /\ run[d].file = upload.files[d]
  /\ upload.started = [k \in 1..Len(upload.started) |-> k]
  /\ upload.active \subseteq { d \in Range(upload.started) : d = upload.k }
  /\ upload.pc \in {"returned", "rejected"} =>
        /\ upload.active = {}
        /\ \A d \in Range(upload.started) : RunEnded(d)

FinalStatuses == {"completed", "error"}

C37_OneAnalysisRecordPerCase ==
  \A c \in CaseIds : Cardinality(AnalysesOf(c)) <= 1

\* ---------------------------------------------------------------------
\* Properties of overlapping searches
\* ---------------------------------------------------------------------
SearchRunning == search.pc # "idle"

OtherSearchRunning == otherSearch.pc \notin {"idle", "done"}

\* C38: when two searches of one useSearch hook overlap, the results
\* shown once both have ended without an error are those of the query
\* issued last (none for a blank one), and isSearching is false only
\* when no search is running.
C38_LatestQueryShown ==
  /\ (/\ ~SearchRunning
      /\ search.error = ""
      /\ otherSearch.outcome \in {"ok", "blank"}) =>
        search.results = IF otherSearch.outcome = "blank" THEN "null"
                         ELSE otherSearch.query
  /\ ~search.isSearching => (~SearchRunning /\ ~OtherSearchRunning)

\* ---------------------------------------------------------------------
\* Properties of a run that failed in the embedding stage
\* ---------------------------------------------------------------------
\* processDocument has re-raised after requests of the embedding stage
\* were sent, and the document is marked error.
FailedInEmbedding(d) ==
  /\ run[d].pc = "raised"
  /\ run[d].sent # {}
  /\ d \in DOMAIN documents
  /\ documents[d].status = "error"

\* C39: once processDocument has failed in the embedding stage and
\* marked the document error, none of the run's embedding requests is
\* still in flight and the run records no further token usage.
C39_FailedRunAbandonsWork ==
  /\ [](\A d \in DocIds : FailedInEmbedding(d) => run[d].inflight = {})
  /\ [][\A d \in DocIds :
          FailedInEmbedding(d) => run'[d].usage = run[d].usage]_vars

====
